---------------------------- MODULE Spec2Model ----------------------------
(***************************************************************************)
(* A model of the court-prep repository's document ingestion pipeline      *)
(* (src/app/api/jobs/ingest/process/route.ts, src/lib/memory.ts,           *)
(* src/app/api/jobs/ingest/status/route.ts), of its chat request handler   *)
(* (src/unnamed/part_004), of its SourceRef schema (src/lib/schemas.ts)    *)
(* and of its provider call wrapper (src/lib/openai.ts).                   *)
(*                                                                         *)
(* The specifications sharing the module:                                  *)
(*   SpecChunk   the chunker, a pure function, applied to bounded inputs   *)
(*   SpecIngest  processJob executions and manual memory rebuilds          *)
(*   SpecBatch   the batch driver's processing requests                    *)
(*   SpecMemory  rebuildCaseMemory calls, one after the other              *)
(*   SpecChat    one chat request, step by step                            *)
(*   SpecRef     SourceRef values parsed and built                         *)
(*   SpecOpenai  one createResponses invocation                            *)
(***************************************************************************)
EXTENDS Integers, Sequences, FiniteSets, TLC

VARIABLES
  \* ---- SpecChunk: the chunker's input and the output of two runs
  chunkPages, chunkRuns, chunkRun1, chunkRun2,
  \* ---- SpecIngest: the relational store
  caseTable,       \* Case rows: memoryRebuildInProgress, vectorStoreId
  job,             \* DocumentIngestJob rows, in creation order (the index is the id)
  document,        \* Document rows, in creation order (the index is the id)
  documentChunk,   \* DocumentChunk rows, in insertion order
  caseMemory,      \* CaseEntity/CaseFact/TimelineEvent/Obligation rows
  vectorStores,    \* vector stores created at the provider so far
  openaiFiles,     \* files uploaded to the provider so far
  \* ---- SpecIngest: the executions in flight
  exec,            \* each processJob execution's or rebuild request's locals
  runs,            \* processJob invocations and rebuild requests started so far
  faults,          \* awaited operations that have thrown so far
  \* ---- SpecChat: one chat request
  chatReq,         \* the request body
  chatStore,       \* what the request finds in the store
  chatPc,          \* the handler's position
  chatLoc,         \* the handler's locals
  chatMessage,     \* ChatMessage rows, in insertion order
  chatCalls,       \* generation calls made, by label
  chatResp,        \* what the caller gets
  chatFaults,      \* awaited operations that have thrown so far
  \* ---- SpecBatch: the processing requests of the batch driver
  bJob,            \* DocumentIngestJob rows, in creation order (the index is the id)
  bReq,            \* the processing requests so far, each with its locals
  bFlight,         \* the processJob promises pending: <<request, job id>>
  bFaults,         \* processJob promises and reads that have rejected so far
  \* ---- SpecMemory: rebuildCaseMemory calls, one after the other
  memDocument,     \* Document rows with the number of their chunks
  memRows,         \* CaseEntity/CaseFact/TimelineEvent/Obligation rows, in insertion order
  memRun,          \* the locals of the rebuild in progress
  memPast,         \* history: the rebuilds that are over
  \* ---- SpecRef: SourceRef values parsed and built
  refLog,          \* history: each SourceRef with where it came from and the schema's verdict
  \* ---- SpecOpenai: one createResponses invocation
  oaEnv,           \* whether OPENAI_API_KEY is set
  oaBase,          \* the caller's parameters
  oaPc,            \* the invocation's position
  oaSanitized,     \* the parameters after buildResponsesParams
  oaCalls,         \* history: the parameters of each client.responses.create call
  oaError,         \* the error caught from the first call
  oaOutcome        \* what the caller gets

chunkVars == <<chunkPages, chunkRuns, chunkRun1, chunkRun2>>
ingestVars ==
  <<caseTable, job, document, documentChunk, caseMemory, vectorStores, openaiFiles,
    exec, runs, faults>>

chatVars ==
  <<chatReq, chatStore, chatPc, chatLoc, chatMessage, chatCalls, chatResp, chatFaults>>

batchVars == <<bJob, bReq, bFlight, bFaults>>

memVars == <<memDocument, memRows, memRun, memPast>>

refVars == <<refLog>>

openaiVars == <<oaEnv, oaBase, oaPc, oaSanitized, oaCalls, oaError, oaOutcome>>

vars == <<chunkVars, ingestVars, chatVars, batchVars, memVars, refVars, openaiVars>>

\* The pageNumber of an unnumbered page (null in the code; page numbers start at 1).
NullPage == 0

(***************************************************************************)
(* Text.  A text is a sequence of one-character strings.                   *)
(***************************************************************************)

\* n copies of the character c.
Rep(c, n) == [i \in 1..n |-> c]

\* The characters String.prototype.trim removes (the ones the inputs use).
Whitespace == {" ", "\n", "\t"}

\* String.prototype.trim: the text without leading and trailing whitespace.
Trim(s) ==
  IF \A i \in 1..Len(s) : s[i] \in Whitespace
    THEN <<>>
    ELSE LET first == CHOOSE i \in 1..Len(s) :
                        /\ s[i] \notin Whitespace
                        /\ \A j \in 1..(i - 1) : s[j] \in Whitespace
             back  == CHOOSE k \in 0..(Len(s) - 1) :
                        /\ s[Len(s) - k] \notin Whitespace
                        /\ \A j \in (Len(s) - k + 1)..Len(s) : s[j] \in Whitespace
         IN  SubSeq(s, first, Len(s) - back)

\* String.prototype.slice(start, end) with 0 <= start <= end <= length.
Slice(s, start, end) == SubSeq(s, start + 1, end)

Min2(a, b) == IF a <= b THEN a ELSE b
Max2(a, b) == IF a >= b THEN a ELSE b

(***************************************************************************)
(* The chunker: chunkText and buildChunks of process/route.ts.             *)
(***************************************************************************)

\* The window size and overlap buildChunks passes to chunkText.
CHUNK_SIZE == 1000
CHUNK_OVERLAP == 150

\* A window that is empty after trim is dropped.
KeepChunk(chunk) == chunk # <<>>

\* The body of chunkText's while loop, from `start` on, `chunks` so far.
RECURSIVE ChunkLoop(_, _, _, _, _)
ChunkLoop(text, chunkSize, overlap, start, chunks) ==
  IF ~(start < Len(text))
    THEN chunks
    ELSE LET end    == Min2(start + chunkSize, Len(text))
             chunk  == Trim(Slice(text, start, end))
             pushed == IF KeepChunk(chunk) THEN Append(chunks, chunk) ELSE chunks
         IN  IF end = Len(text)
               THEN pushed
               ELSE ChunkLoop(text, chunkSize, overlap, Max2(0, end - overlap), pushed)

chunkText(text, chunkSize, overlap) ==
  IF text = <<>> THEN <<>> ELSE ChunkLoop(text, chunkSize, overlap, 0, <<>>)

\* The chunkIndex buildChunks gives the next chunk, `count` chunks pushed so far.
NextChunkIndex_PerPage(count, posInPage) == posInPage - 1
NextChunkIndex(count, posInPage) == count

\* The rows one page adds to `result`.
PageRows(page, result) ==
  LET pageChunks == chunkText(page.text, CHUNK_SIZE, CHUNK_OVERLAP)
  IN  [k \in 1..Len(pageChunks) |->
         [pageNumber |-> page.pageNumber,
          chunkIndex |-> NextChunkIndex(Len(result) + k - 1, k),
          text       |-> pageChunks[k]]]

\* buildChunks' loop over the pages from position i on.
RECURSIVE BuildLoop(_, _, _)
BuildLoop(pages, i, result) ==
  IF i > Len(pages)
    THEN result
    ELSE BuildLoop(pages, i + 1, result \o PageRows(pages[i], result))

buildChunks(pages) == BuildLoop(pages, 1, <<>>)

(***************************************************************************)
(* SpecChunk: buildChunks applied twice to every input of a bounded set.   *)
(***************************************************************************)

\* The longest page list the chunker is given.
MaxPages == 2

\* Page texts: empty, blank, short, exactly one window, one character over
\* a window, a blank first window, a blank stretch across a window edge.
ChunkTexts ==
  { <<>>,
    Rep(" ", 3),
    <<"a", " ", "b">>,
    Rep("a", CHUNK_SIZE),
    Rep("a", CHUNK_SIZE + 1),
    Rep(" ", CHUNK_SIZE) \o Rep("b", 10),
    Rep("a", CHUNK_SIZE - CHUNK_OVERLAP - 50) \o Rep(" ", CHUNK_OVERLAP + 250) \o Rep("b", 5) }

\* Page lists as extractTextFromBuffer builds them: one unnumbered page, or a
\* PDF's pages, each with its own page number, in the order they were rendered.
ChunkInputs ==
  { <<[pageNumber |-> NullPage, text |-> t]>> : t \in ChunkTexts }
  \cup
  UNION { { [i \in 1..n |-> [pageNumber |-> num[i], text |-> txt[i]]] :
              num \in { f \in [1..n -> 1..n] : \A a, b \in 1..n : a # b => f[a] # f[b] },
              txt \in [1..n -> ChunkTexts] } : n \in 0..MaxPages }

\* The ingest variables while another specification runs.
IngestIdle ==
  /\ caseTable = <<>>
  /\ job = <<>>
  /\ document = <<>>
  /\ documentChunk = <<>>
  /\ caseMemory = <<>>
  /\ vectorStores = 0
  /\ openaiFiles = 0
  /\ exec = <<>>
  /\ runs = 0
  /\ faults = 0

\* The batch driver's variables while another specification runs.
BatchIdle ==
  /\ bJob = <<>>
  /\ bReq = <<>>
  /\ bFlight = {}
  /\ bFaults = 0

\* The SourceRef history while another specification runs.
RefIdle == refLog = <<>>

\* The createResponses variables while another specification runs.
OpenaiIdle ==
  /\ oaEnv = FALSE
  /\ oaBase = <<>>
  /\ oaPc = "idle"
  /\ oaSanitized = <<>>
  /\ oaCalls = <<>>
  /\ oaError = <<>>
  /\ oaOutcome = <<>>

\* The rebuild variables while another specification runs.
MemIdle ==
  /\ memDocument = <<>>
  /\ memRows = <<>>
  /\ memRun = <<>>
  /\ memPast = <<>>

\* The chat variables while another specification runs.
ChatIdle ==
  /\ chatReq = <<>>
  /\ chatStore = <<>>
  /\ chatPc = "idle"
  /\ chatLoc = <<>>
  /\ chatMessage = <<>>
  /\ chatCalls = <<>>
  /\ chatResp = <<>>
  /\ chatFaults = 0

InitChunk ==
  /\ IngestIdle
  /\ ChatIdle
  /\ BatchIdle
  /\ MemIdle
  /\ RefIdle
  /\ OpenaiIdle
  /\ chunkPages \in ChunkInputs
  /\ chunkRuns = 0
  /\ chunkRun1 = <<>>
  /\ chunkRun2 = <<>>

\* The chunker runs on the extracted pages.
ChunkFirstRun ==
  /\ chunkRuns = 0
  /\ chunkRuns' = 1
  /\ chunkRun1' = buildChunks(chunkPages)
  /\ UNCHANGED <<chunkPages, chunkRun2, ingestVars, chatVars, batchVars, memVars, refVars, openaiVars>>

\* The chunker runs again on the same pages (a reprocessing).
ChunkSecondRun ==
  /\ chunkRuns = 1
  /\ chunkRuns' = 2
  /\ chunkRun2' = buildChunks(chunkPages)
  /\ UNCHANGED <<chunkPages, chunkRun1, ingestVars, chatVars, batchVars, memVars, refVars, openaiVars>>

NextChunk == ChunkFirstRun \/ ChunkSecondRun

SpecChunk == InitChunk /\ [][NextChunk]_vars

(***************************************************************************)
(* SpecIngest: the ingest pipeline.  Files, extraction, the tables.        *)
(***************************************************************************)

\* Cases in the store.
MaxCases == 2
\* processJob executions in flight at once.
MaxExecs == 2
\* processJob invocations and rebuild requests started in one behaviour.
MaxRuns == 2
\* Manual memory-rebuild requests in one behaviour.
MaxManual == 1
\* Awaited operations that throw in one behaviour.
MaxFaults == 1

Cases == 1..MaxCases
Execs == 1..MaxExecs
Manuals == (MaxExecs + 1)..(MaxExecs + MaxManual)
Runners == Execs \cup Manuals

\* A value of a nullable id column or local that is null.
NullId == 0
\* A null error column; an error message is a non-empty sequence of strings.
NoError == <<>>

UpperCase == <<"A","B","C","D","E","F","G","H","I","J","K","L","M",
               "N","O","P","Q","R","S","T","U","V","W","X","Y","Z">>
LowerCase == <<"a","b","c","d","e","f","g","h","i","j","k","l","m",
               "n","o","p","q","r","s","t","u","v","w","x","y","z">>
Digits == {"0","1","2","3","4","5","6","7","8","9"}
AlphaNum == { LowerCase[i] : i \in 1..26 } \cup Digits

\* String.prototype.toLowerCase.
ToLowerCase(s) ==
  [i \in 1..Len(s) |->
     IF \E k \in 1..26 : UpperCase[k] = s[i]
       THEN LowerCase[CHOOSE k \in 1..26 : UpperCase[k] = s[i]]
       ELSE s[i]]

\* getExtension: what /\.([a-z0-9]+)$/ captures in the lower-cased name, or "".
getExtension(filename) ==
  LET s    == ToLowerCase(filename)
      dots == { i \in 1..(Len(s) - 1) :
                  /\ s[i] = "."
                  /\ \A k \in (i + 1)..Len(s) : s[k] \in AlphaNum }
  IN  IF dots = {} THEN <<>>
      ELSE SubSeq(s, (CHOOSE i \in dots : TRUE) + 1, Len(s))

EXT_PDF == <<"p","d","f">>
EXT_ZIP == <<"z","i","p">>
\* The extensions whose text is returned as one unnumbered page.
SinglePageExtensions_WithRar ==
  { <<"d","o","c","x">>, <<"t","x","t">>, <<"m","d">>, <<"r","a","r">> }
SinglePageExtensions ==
  { <<"d","o","c","x">>, <<"t","x","t">>, <<"m","d">>, <<"r","t","f">>,
    <<"h","t","m","l">>, <<"h","t","m">>, <<"c","s","v">>, <<"e","m","l">>,
    <<"m","s","g">>,
    <<"p","n","g">>, <<"j","p","g">>, <<"j","p","e","g">>, <<"g","i","f">>,
    <<"b","m","p">>, <<"t","i","f","f">>, <<"t","i","f">>, <<"w","e","b","p">> }

\* The message of the error thrown for a file type with no extractor.
UnsupportedMessage(ext) ==
  <<"Unsupported file type: .">> \o (IF ext = <<>> THEN <<"unknown">> ELSE ext)
EncryptedMessage == <<"PDF is password-protected or encrypted.">>

\* A stored file: its name, the texts its parser yields (one per PDF page,
\* else one), whether the PDF parser rejects it as encrypted, and the
\* non-directory entries of an archive.
File(filename, texts, encrypted, entries) ==
  [filename |-> filename, texts |-> texts, encrypted |-> encrypted, entries |-> entries]

\* extractTextFromBuffer: the pages, or the error it throws.
extractTextFromBuffer(file) ==
  LET ext == getExtension(file.filename)
  IN  IF ext = EXT_PDF
        THEN IF file.encrypted
               THEN [ok |-> FALSE, pages |-> <<>>, message |-> EncryptedMessage]
               ELSE [ok |-> TRUE,
                     pages |-> [i \in 1..Len(file.texts) |->
                                  [pageNumber |-> i, text |-> file.texts[i]]],
                     message |-> NoError]
      ELSE IF ext \in SinglePageExtensions
        THEN [ok |-> TRUE,
              pages |-> <<[pageNumber |-> NullPage, text |-> file.texts[1]]>>,
              message |-> NoError]
      ELSE [ok |-> FALSE, pages |-> <<>>, message |-> UnsupportedMessage(ext)]

\* The statuses the batch driver's filter selects.
RetrySelected_WithDone == {"queued", "uploaded", "ready_to_index", "error", "done"}
RetrySelected == {"queued", "uploaded", "ready_to_index", "error"}

TextFile  == File(<<"a",".","t","x","t">>, << <<"a"," ","b">> >>, FALSE, <<>>)
BlankFile == File(<<"n",".","m","d">>, << <<" "," ">> >>, FALSE, <<>>)
PdfFile   == File(<<"b",".","P","D","F">>, << <<"a">>, <<>>, <<"b">> >>, FALSE, <<>>)
LockedPdf == File(<<"e",".","p","d","f">>, <<>>, TRUE, <<>>)
RarFile   == File(<<"d",".","r","a","r">>, << <<"x">> >>, FALSE, <<>>)
ZipFile   == File(<<"c",".","z","i","p">>, <<>>, FALSE, <<TextFile, BlankFile>>)

\* The files uploaded at the start.
UploadedFiles == {TextFile, BlankFile, PdfFile, LockedPdf, RarFile, ZipFile}

\* A job row as the upload route creates it.
UploadedJob(c, file) ==
  [caseId |-> c, file |-> file, status |-> "uploaded", error |-> NoError,
   documentId |-> NullId]

\* The locals of a runner (a processJob execution or a rebuild request) that
\* has not started, followed by the history the properties read.
IdleExec ==
  [pc |-> "idle", kind |-> "none", jobId |-> 0, caseId |-> 0, file |-> TextFile,
   jobDocumentId |-> NullId, documentId |-> NullId, created |-> NullId,
   pages |-> <<>>, chunks |-> <<>>, i |-> 0, vectorStoreId |-> NullId,
   documentIds |-> <<>>, documents |-> <<>>, d |-> 0, error |-> NoError,
   outcome |-> "none",
   \* history
   trace |-> <<>>, failedAt |-> "none", lockResult |-> "none", flagSeen |-> FALSE,
   raced |-> FALSE, ranExtraction |-> FALSE, overlapped |-> FALSE, interfered |-> FALSE,
   priorCount |-> -1, chunkCount |-> -1, children |-> <<>>, extracted |-> <<>>]

\* The DocumentChunk rows a run of processJob inserts for a document.
ChunkRows(c, documentId, file) ==
  LET chunks == buildChunks(extractTextFromBuffer(file).pages)
  IN  [k \in 1..Len(chunks) |->
         [caseId |-> c, documentId |-> documentId,
          pageNumber |-> chunks[k].pageNumber, chunkIndex |-> chunks[k].chunkIndex,
          text |-> chunks[k].text]]

\* The store at the start: uploads that no request has processed yet, or one
\* PDF that an earlier request processed to done.  releaseFailed is history:
\* a releaseMemoryRebuildLock call on the case has thrown.
FreshStore(jobs) ==
  /\ caseTable = [c \in Cases |-> [memoryRebuildInProgress |-> FALSE, vectorStoreId |-> NullId,
                                    releaseFailed |-> FALSE]]
  /\ job = jobs
  /\ document = <<>>
  /\ documentChunk = <<>>
  /\ vectorStores = 0
  /\ openaiFiles = 0

ProcessedStore ==
  /\ caseTable = [c \in Cases |->
                    [memoryRebuildInProgress |-> FALSE,
                     vectorStoreId |-> IF c = 1 THEN 1 ELSE NullId,
                     releaseFailed |-> FALSE]]
  /\ job = << [UploadedJob(1, PdfFile) EXCEPT !.status = "done", !.documentId = 1] >>
  /\ document = << [caseId |-> 1, openaiFileId |-> 1, vectorStoreId |-> 1, byJob |-> 1, entry |-> 0] >>
  /\ documentChunk = ChunkRows(1, 1, PdfFile)
  /\ vectorStores = 1
  /\ openaiFiles = 1

\* The chunker variables while another specification runs.
ChunkIdle ==
  /\ chunkPages = <<>>
  /\ chunkRuns = 0
  /\ chunkRun1 = <<>>
  /\ chunkRun2 = <<>>

InitIngest ==
  /\ ChunkIdle
  /\ ChatIdle
  /\ BatchIdle
  /\ MemIdle
  /\ RefIdle
  /\ OpenaiIdle
  /\ \/ \E f \in UploadedFiles : FreshStore(<<UploadedJob(1, f)>>)
     \/ \E c \in Cases : FreshStore(<<UploadedJob(1, TextFile), UploadedJob(c, TextFile)>>)
     \/ ProcessedStore
  /\ caseMemory = <<>>
  /\ exec = [e \in Runners |-> IdleExec]
  /\ runs = 0
  /\ faults = 0

(***************************************************************************)
(* SpecIngest: processJob, one action per awaited step.                    *)
(***************************************************************************)

\* The variables of the other specifications stay as they are.
ingestOnly == UNCHANGED <<chunkVars, chatVars, batchVars, memVars, refVars, openaiVars>>

\* Runner e's locals become x; the other runners keep theirs.
SetExec(e, x) == exec' = [exec EXCEPT ![e] = x]

\* A status write of a runner, remembered in its trace.
Wrote(x, status) == [x EXCEPT !.trace = Append(x.trace, status)]

\* Runner e's locals become x after it wrote job j's status: another
\* execution, at work or over, on that job or on the archive job that created
\* it, has been interfered with.
SetExecStatus(e, x, j) ==
  exec' = [r \in Runners |->
             IF r = e THEN x
             ELSE IF /\ exec[r].kind = "job"
                     /\ \/ exec[r].jobId = j
                        \/ \E k \in 1..Len(exec[r].children) : exec[r].children[k] = j
               THEN [exec[r] EXCEPT !.interfered = TRUE]
             ELSE exec[r]]

\* The invocation or request is over: its locals are gone, its history stays.
Finish(x, outcome) ==
  [IdleExec EXCEPT !.pc = "end", !.outcome = outcome, !.kind = x.kind,
                   !.jobId = x.jobId, !.caseId = x.caseId, !.documentId = x.documentId,
                   !.error = x.error, !.trace = x.trace, !.failedAt = x.failedAt,
                   !.lockResult = x.lockResult, !.flagSeen = x.flagSeen,
                   !.raced = x.raced, !.ranExtraction = x.ranExtraction,
                   !.overlapped = x.overlapped, !.interfered = x.interfered,
                   !.priorCount = x.priorCount,
                   !.chunkCount = x.chunkCount, !.children = x.children,
                   !.extracted = x.extracted]

\* An error thrown inside processJob's try block.
Throw(x, message) == [x EXCEPT !.pc = "catch", !.error = message, !.failedAt = x.pc]

\* The status written once the extracted text is stored.
StatusAfterExtraction_Skipped == "indexing"
StatusAfterExtraction == "ready_to_index"

\* deleteMany's where clause on DocumentChunk.
ChunkDeleteMatches_Nothing(row, documentId) == FALSE
ChunkDeleteMatches(row, documentId) == row.documentId = documentId

\* The number of DocumentChunk rows of a document in a table.
ChunkCountOf(table, documentId) ==
  Cardinality({ k \in 1..Len(table) : table[k].documentId = documentId })

\* A processing request invokes processJob(jobId); 0 is an id with no row.
PJ_Start(e, j) ==
  /\ exec[e].pc \in {"idle", "end"}
  /\ \A r \in Execs : r < e => exec[r].pc \notin {"idle", "end"}
  /\ runs < MaxRuns
  /\ runs' = runs + 1
  /\ SetExec(e, [IdleExec EXCEPT !.pc = "lookup", !.kind = "job", !.jobId = j])
  /\ UNCHANGED <<caseTable, job, document, documentChunk, caseMemory, vectorStores, openaiFiles, faults>>
  /\ ingestOnly

\* findUnique on the job; a missing job ends the invocation.
PJ_Lookup(e) ==
  LET x == exec[e]
  IN  /\ x.pc = "lookup"
      /\ IF x.jobId \notin 1..Len(job)
           THEN SetExec(e, Finish(x, "returned"))
           ELSE SetExec(e, [x EXCEPT !.pc = "resolveDocument",
                                     !.caseId = job[x.jobId].caseId,
                                     !.file = job[x.jobId].file,
                                     !.jobDocumentId = job[x.jobId].documentId])
      /\ UNCHANGED <<caseTable, job, document, documentChunk, caseMemory, vectorStores,
                     openaiFiles, runs, faults>>
      /\ ingestOnly

\* The job's Document is looked up, or created when the job links none.
PJ_ResolveDocument(e) ==
  LET x == exec[e]
  IN  /\ x.pc = "resolveDocument"
      /\ IF x.jobDocumentId # NullId /\ x.jobDocumentId \in 1..Len(document)
           THEN /\ SetExec(e, [x EXCEPT !.pc = "markExtracting",
                                        !.documentId = x.jobDocumentId])
                /\ UNCHANGED document
           ELSE /\ document' = Append(document,
                      [caseId |-> x.caseId, openaiFileId |-> NullId,
                       vectorStoreId |-> NullId, byJob |-> x.jobId, entry |-> 0])
                /\ SetExec(e, [x EXCEPT !.pc = "markExtracting",
                                        !.documentId = Len(document) + 1])
      /\ UNCHANGED <<caseTable, job, documentChunk, caseMemory, vectorStores, openaiFiles, runs, faults>>
      /\ ingestOnly

PJ_MarkExtracting(e) ==
  LET x == exec[e]
  IN  /\ x.pc = "markExtracting"
      /\ job' = [job EXCEPT ![x.jobId].status = "extracting", ![x.jobId].error = NoError]
      /\ SetExecStatus(e, Wrote([x EXCEPT !.pc = "fetchExtract"], "extracting"), x.jobId)
      /\ UNCHANGED <<caseTable, document, documentChunk, caseMemory, vectorStores,
                     openaiFiles, runs, faults>>
      /\ ingestOnly

\* The blob is fetched; an archive goes to expandZip, any other file is
\* extracted and its text stored.
PJ_FetchExtract(e) ==
  LET x   == exec[e]
      ext == getExtension(x.file.filename)
      r   == extractTextFromBuffer(x.file)
  IN  /\ x.pc = "fetchExtract"
      /\ IF ext = EXT_ZIP
           THEN SetExec(e, [x EXCEPT !.pc = IF x.file.entries = <<>> THEN "zipDone"
                                            ELSE "zipDocument",
                                     !.i = 0])
           ELSE IF r.ok
             THEN SetExec(e, [x EXCEPT !.pc = "markReady", !.pages = r.pages])
             ELSE SetExec(e, Throw(x, r.message))
      /\ UNCHANGED <<caseTable, job, document, documentChunk, caseMemory, vectorStores,
                     openaiFiles, runs, faults>>
      /\ ingestOnly

\* expandZip, entry i: the entry is stored and a Document created for it.
PJ_ZipDocument(e) ==
  LET x == exec[e]
  IN  /\ x.pc = "zipDocument"
      /\ document' = Append(document,
            [caseId |-> x.caseId, openaiFileId |-> NullId,
             vectorStoreId |-> NullId, byJob |-> x.jobId, entry |-> x.i + 1])
      /\ SetExec(e, [x EXCEPT !.pc = "zipJob", !.created = Len(document) + 1])
      /\ UNCHANGED <<caseTable, job, documentChunk, caseMemory, vectorStores, openaiFiles, runs, faults>>
      /\ ingestOnly

\* The Document an archive entry's job is linked to.
ZipChildDocument_Parent(x) == x.documentId
ZipChildDocument(x) == x.created

\* expandZip, entry i: a queued job linked to the entry's Document.
PJ_ZipJob(e) ==
  LET x == exec[e]
  IN  /\ x.pc = "zipJob"
      /\ job' = Append(job,
            [caseId |-> x.caseId, file |-> x.file.entries[x.i + 1],
             status |-> "queued", error |-> NoError,
             documentId |-> ZipChildDocument(x)])
      /\ SetExec(e, [x EXCEPT !.pc = IF x.i + 1 < Len(x.file.entries)
                                       THEN "zipDocument" ELSE "zipDone",
                              !.i = x.i + 1,
                              !.children = Append(x.children, Len(job) + 1)])
      /\ UNCHANGED <<caseTable, document, documentChunk, caseMemory, vectorStores,
                     openaiFiles, runs, faults>>
      /\ ingestOnly

\* The archive's own job is done; processJob returns.
PJ_ZipDone(e) ==
  LET x == exec[e]
  IN  /\ x.pc = "zipDone"
      /\ job' = [job EXCEPT ![x.jobId].status = "done"]
      /\ SetExecStatus(e, Wrote(Finish(x, "returned"), "done"), x.jobId)
      /\ UNCHANGED <<caseTable, document, documentChunk, caseMemory, vectorStores,
                     openaiFiles, runs, faults>>
      /\ ingestOnly

PJ_MarkReady(e) ==
  LET x == exec[e]
  IN  /\ x.pc = "markReady"
      /\ job' = [job EXCEPT ![x.jobId].status = StatusAfterExtraction]
      /\ SetExecStatus(e, Wrote([x EXCEPT !.pc = "markIndexing"], StatusAfterExtraction), x.jobId)
      /\ UNCHANGED <<caseTable, document, documentChunk, caseMemory, vectorStores,
                     openaiFiles, runs, faults>>
      /\ ingestOnly

PJ_MarkIndexing(e) ==
  LET x == exec[e]
  IN  /\ x.pc = "markIndexing"
      /\ job' = [job EXCEPT ![x.jobId].status = "indexing"]
      /\ SetExecStatus(e, Wrote([x EXCEPT !.pc = "deleteChunks"], "indexing"), x.jobId)
      /\ UNCHANGED <<caseTable, document, documentChunk, caseMemory, vectorStores,
                     openaiFiles, runs, faults>>
      /\ ingestOnly

\* Runner r's locals after runner e wrote DocumentChunk rows of documentId:
\* a runner in its own insert loop on that document has been overlapped.
Overlap(r, e, documentId) ==
  IF r # e /\ exec[r].pc = "createChunk" /\ exec[r].documentId = documentId
    THEN [exec[r] EXCEPT !.overlapped = TRUE]
    ELSE exec[r]

\* The document's chunks are deleted and the new chunks built.
PJ_DeleteChunks(e) ==
  LET x      == exec[e]
      Kept(row) == ~ChunkDeleteMatches(row, x.documentId)
      table  == SelectSeq(documentChunk, Kept)
      chunks == buildChunks(x.pages)
      prior  == ChunkCountOf(documentChunk, x.documentId)
  IN  /\ x.pc = "deleteChunks"
      /\ documentChunk' = table
      /\ exec' = [r \in Runners |->
                    IF r = e
                      THEN IF chunks = <<>>
                             THEN [x EXCEPT !.pc = "ensureVectorStore", !.chunks = chunks,
                                            !.priorCount = prior,
                                            !.chunkCount = ChunkCountOf(table, x.documentId)]
                             ELSE [x EXCEPT !.pc = "createChunk", !.chunks = chunks, !.i = 0,
                                            !.priorCount = prior]
                      ELSE Overlap(r, e, x.documentId)]
      /\ UNCHANGED <<caseTable, job, document, caseMemory, vectorStores, openaiFiles, runs, faults>>
      /\ ingestOnly

\* The loop body: chunk i is inserted (the embeddings were computed before i = 0).
PJ_CreateChunk(e) ==
  LET x     == exec[e]
      chunk == x.chunks[x.i + 1]
      table == Append(documentChunk,
                 [caseId |-> x.caseId, documentId |-> x.documentId,
                  pageNumber |-> chunk.pageNumber, chunkIndex |-> chunk.chunkIndex,
                  text |-> chunk.text])
  IN  /\ x.pc = "createChunk"
      /\ documentChunk' = table
      /\ exec' = [r \in Runners |->
                    IF r = e
                      THEN IF x.i + 1 < Len(x.chunks)
                             THEN [x EXCEPT !.i = x.i + 1]
                             ELSE [x EXCEPT !.pc = "ensureVectorStore", !.i = x.i + 1,
                                            !.chunkCount = ChunkCountOf(table, x.documentId)]
                      ELSE Overlap(r, e, x.documentId)]
      /\ UNCHANGED <<caseTable, job, document, caseMemory, vectorStores, openaiFiles, runs, faults>>
      /\ ingestOnly

\* ensureVectorStore reads the case: a stored handle is returned.
PJ_EnsureVectorStore(e) ==
  LET x == exec[e]
  IN  /\ x.pc = "ensureVectorStore"
      /\ IF caseTable[x.caseId].vectorStoreId # NullId
           THEN SetExec(e, [x EXCEPT !.pc = "updateDocument",
                                     !.vectorStoreId = caseTable[x.caseId].vectorStoreId])
           ELSE SetExec(e, [x EXCEPT !.pc = "createVectorStore"])
      /\ UNCHANGED <<caseTable, job, document, documentChunk, caseMemory, vectorStores,
                     openaiFiles, runs, faults>>
      /\ ingestOnly

\* ensureVectorStore creates a store and writes its handle to the case.
PJ_CreateVectorStore(e) ==
  LET x == exec[e]
  IN  /\ x.pc = "createVectorStore"
      /\ vectorStores' = vectorStores + 1
      /\ caseTable' = [caseTable EXCEPT ![x.caseId].vectorStoreId = vectorStores + 1]
      /\ SetExec(e, [x EXCEPT !.pc = "updateDocument", !.vectorStoreId = vectorStores + 1])
      /\ UNCHANGED <<job, document, documentChunk, caseMemory, openaiFiles, runs, faults>>
      /\ ingestOnly

\* The text is uploaded and attached to the store; the Document records both.
PJ_UpdateDocument(e) ==
  LET x == exec[e]
  IN  /\ x.pc = "updateDocument"
      /\ openaiFiles' = openaiFiles + 1
      /\ document' = [document EXCEPT ![x.documentId].openaiFileId = openaiFiles + 1,
                                      ![x.documentId].vectorStoreId = x.vectorStoreId]
      /\ SetExec(e, [x EXCEPT !.pc = "markDone"])
      /\ UNCHANGED <<caseTable, job, documentChunk, caseMemory, vectorStores, runs, faults>>
      /\ ingestOnly

UniqueMessage == <<"Unique constraint failed on the fields: documentId">>

\* The job is done and linked to the Document; the link is unique among jobs.
PJ_MarkDone(e) ==
  LET x == exec[e]
  IN  /\ x.pc = "markDone"
      /\ IF \E k \in 1..Len(job) : k # x.jobId /\ job[k].documentId = x.documentId
           THEN /\ SetExec(e, Throw(x, UniqueMessage))
                /\ UNCHANGED job
           ELSE /\ job' = [job EXCEPT ![x.jobId].status = "done",
                                      ![x.jobId].documentId = x.documentId]
                /\ SetExecStatus(e, Wrote([x EXCEPT !.pc = "acquireLock",
                                                    !.documentIds = <<x.documentId>>],
                                           "done"), x.jobId)
      /\ UNCHANGED <<caseTable, document, documentChunk, caseMemory, vectorStores,
                     openaiFiles, runs, faults>>
      /\ ingestOnly

\* The catch block records the failure on the job.
PJ_Catch(e) ==
  LET x == exec[e]
  IN  /\ x.pc = "catch"
      /\ job' = [job EXCEPT ![x.jobId].status = "error", ![x.jobId].error = x.error]
      /\ SetExecStatus(e, Wrote(Finish(x, "returned"), "error"), x.jobId)
      /\ UNCHANGED <<caseTable, document, documentChunk, caseMemory, vectorStores,
                     openaiFiles, runs, faults>>
      /\ ingestOnly

(***************************************************************************)
(* SpecIngest: the memory-rebuild lock, rebuildCaseMemory, the manual      *)
(* rebuild request, and the failures of awaited operations.                *)
(***************************************************************************)

\* The steps of a runner that are inside rebuildCaseMemory.
RebuildSteps == {"rbDocs", "rbLoad", "rbDelete", "rbExtract"}

\* acquireMemoryRebuildLock's where clause on the case row.
AcquireMatches_Any(c) == TRUE
AcquireMatches(c) == caseTable[c].memoryRebuildInProgress = FALSE

\* A manual rebuild request for case c arrives (no documentIds: every document).
M_Start(m, c) ==
  /\ exec[m].pc = "idle"
  /\ runs < MaxRuns
  /\ runs' = runs + 1
  /\ SetExec(m, [IdleExec EXCEPT !.pc = "acquireLock", !.kind = "manual", !.caseId = c])
  /\ UNCHANGED <<caseTable, job, document, documentChunk, caseMemory, vectorStores,
                 openaiFiles, faults>>
  /\ ingestOnly

\* The caller did not acquire: processJob skips the rebuild and returns, the
\* manual request answers 202 in_progress.
NotAcquired_Rebuilds(seen) == [seen EXCEPT !.lockResult = "lost", !.pc = "rbDocs"]
NotAcquired(seen) ==
  Finish([seen EXCEPT !.lockResult = "lost"],
         IF seen.kind = "job" THEN "returned" ELSE "in_progress")

\* acquireMemoryRebuildLock: one conditional update; the caller goes on to
\* rebuild only if a row was updated.
R_Acquire(e) ==
  LET x    == exec[e]
      race == \E r \in Runners \ {e} :
                exec[r].pc = "acquireLock" /\ exec[r].caseId = x.caseId
      seen == [x EXCEPT !.flagSeen = caseTable[x.caseId].memoryRebuildInProgress,
                        !.raced = x.raced \/ race]
  IN  /\ x.pc = "acquireLock"
      /\ IF AcquireMatches(x.caseId)
           THEN /\ caseTable' = [caseTable EXCEPT ![x.caseId].memoryRebuildInProgress = TRUE]
                /\ exec' = [r \in Runners |->
                              IF r = e
                                THEN [seen EXCEPT !.pc = "rbDocs", !.lockResult = "won"]
                              ELSE IF exec[r].pc = "acquireLock" /\ exec[r].caseId = x.caseId
                                THEN [exec[r] EXCEPT !.raced = TRUE]
                              ELSE exec[r]]
           ELSE /\ UNCHANGED caseTable
                /\ SetExec(e, NotAcquired(seen))
      /\ UNCHANGED <<job, document, documentChunk, caseMemory, vectorStores, openaiFiles, runs, faults>>
      /\ ingestOnly

\* rebuildCaseMemory: the case's documents, all or the ones asked for.
R_Docs(e) ==
  LET x == exec[e]
      Wanted(k) ==
        /\ document[k].caseId = x.caseId
        /\ \/ x.documentIds = <<>>
           \/ \E n \in 1..Len(x.documentIds) : x.documentIds[n] = k
      documents == SelectSeq([k \in 1..Len(document) |-> k], Wanted)
  IN  /\ x.pc = "rbDocs"
      /\ SetExec(e, [x EXCEPT !.pc = IF documents = <<>> THEN "release" ELSE "rbLoad",
                              !.documents = documents, !.d = 1])
      /\ UNCHANGED <<caseTable, job, document, documentChunk, caseMemory, vectorStores,
                     openaiFiles, runs, faults>>
      /\ ingestOnly

\* The loop over documents moves on.
NextDocument(x) ==
  IF x.d < Len(x.documents)
    THEN [x EXCEPT !.pc = "rbLoad", !.d = x.d + 1]
    ELSE [x EXCEPT !.pc = "release"]

\* The document's chunks are read; a document without chunks is skipped.
R_Load(e) ==
  LET x == exec[e]
  IN  /\ x.pc = "rbLoad"
      /\ IF ChunkCountOf(documentChunk, x.documents[x.d]) = 0
           THEN SetExec(e, NextDocument(x))
           ELSE SetExec(e, [x EXCEPT !.pc = "rbDelete"])
      /\ UNCHANGED <<caseTable, job, document, documentChunk, caseMemory, vectorStores,
                     openaiFiles, runs, faults>>
      /\ ingestOnly

\* The document's memory rows are deleted.
R_Delete(e) ==
  LET x == exec[e]
      Kept(row) == ~(row.caseId = x.caseId /\ row.documentId = x.documents[x.d])
  IN  /\ x.pc = "rbDelete"
      /\ caseMemory' = SelectSeq(caseMemory, Kept)
      /\ SetExec(e, [x EXCEPT !.pc = "rbExtract"])
      /\ UNCHANGED <<caseTable, job, document, documentChunk, vectorStores, openaiFiles, runs, faults>>
      /\ ingestOnly

\* What the extraction model returns for a batch: items, valid output with
\* nothing in it, or JSON that fails the schema.
ExtractionOutputs == {"items", "empty", "invalid"}

\* The extraction call on the document's chunks and the insert of its items.
R_Extract(e, output) ==
  LET x == exec[e]
  IN  /\ x.pc = "rbExtract"
      /\ caseMemory' = IF output = "items"
                         THEN Append(caseMemory,
                                [caseId |-> x.caseId, documentId |-> x.documents[x.d]])
                         ELSE caseMemory
      /\ SetExec(e, NextDocument([x EXCEPT !.ranExtraction = TRUE,
                                            !.extracted = Append(x.extracted, x.documents[x.d])]))
      /\ UNCHANGED <<caseTable, job, document, documentChunk, vectorStores, openaiFiles, runs, faults>>
      /\ ingestOnly

\* releaseMemoryRebuildLock in the finally block; a pending error goes on to
\* the caller's catch.
R_Release(e) ==
  LET x == exec[e]
  IN  /\ x.pc = "release"
      /\ caseTable' = [caseTable EXCEPT ![x.caseId].memoryRebuildInProgress = FALSE]
      /\ SetExec(e, IF x.kind = "job"
                      THEN IF x.error # NoError THEN [x EXCEPT !.pc = "catch"]
                           ELSE Finish(x, "returned")
                      ELSE Finish(x, IF x.error # NoError THEN "error500" ELSE "completed"))
      /\ UNCHANGED <<job, document, documentChunk, caseMemory, vectorStores, openaiFiles, runs, faults>>
      /\ ingestOnly

DbMessage == <<"Can't reach database server">>

\* The messages of the errors the awaited operations of a step can throw.
FaultMessages(x) ==
  CASE x.pc = "fetchExtract" ->
         IF getExtension(x.file.filename) = EXT_ZIP
           THEN { <<"blob_fetch timed out">> }
           ELSE { <<"blob_fetch timed out">>, <<"Vercel Blob: upload failed">> }
    [] x.pc = "createChunk" ->
         IF x.i = 0 THEN { <<"Embedding request failed">>, DbMessage } ELSE { DbMessage }
    [] x.pc = "createVectorStore" -> { <<"Vector store request failed">> }
    [] x.pc = "updateDocument" ->
         { <<"openai_file_create timed out">>, <<"vector_store_attach timed out">>, DbMessage }
    [] x.pc = "rbExtract" ->
         { <<"memory_extraction timed out">>, <<"Unexpected end of JSON input">> }
    [] x.pc \in {"idle", "end"} -> {}
    [] OTHER -> { DbMessage }

\* rebuildCaseMemory threw: the finally block runs, then the error goes on.
FailedRebuild_NoFinally(failed) ==
  IF failed.kind = "job" THEN [failed EXCEPT !.pc = "catch"] ELSE Finish(failed, "error500")
FailedRebuild(failed) == [failed EXCEPT !.pc = "release"]

\* An awaited operation of runner e's current step throws.
Fault(e, message) ==
  LET x == exec[e]
      failed == [x EXCEPT !.error = message,
                          !.failedAt = IF x.failedAt = "none" THEN x.pc ELSE x.failedAt]
  IN  /\ faults < MaxFaults
      /\ message \in FaultMessages(x)
      /\ faults' = faults + 1
      /\ SetExec(e,
           CASE x.pc \in {"lookup", "catch"} -> Finish([failed EXCEPT !.error = x.error], "rejected")
             [] x.pc \in RebuildSteps -> FailedRebuild(failed)
             [] x.pc \in {"acquireLock", "release"} /\ x.kind = "manual" ->
                  Finish(failed, "error500")
             [] OTHER -> [failed EXCEPT !.pc = "catch"])
      /\ caseTable' = IF x.pc = "release"
                        THEN [caseTable EXCEPT ![x.caseId].releaseFailed = TRUE]
                        ELSE caseTable
      /\ UNCHANGED <<job, document, documentChunk, caseMemory, vectorStores, openaiFiles, runs>>
      /\ ingestOnly

NextIngest ==
  \/ \E e \in Execs : \E j \in 0..Len(job) : PJ_Start(e, j)
  \/ \E e \in Execs : PJ_Lookup(e)
  \/ \E e \in Execs : PJ_ResolveDocument(e)
  \/ \E e \in Execs : PJ_MarkExtracting(e)
  \/ \E e \in Execs : PJ_FetchExtract(e)
  \/ \E e \in Execs : PJ_ZipDocument(e)
  \/ \E e \in Execs : PJ_ZipJob(e)
  \/ \E e \in Execs : PJ_ZipDone(e)
  \/ \E e \in Execs : PJ_MarkReady(e)
  \/ \E e \in Execs : PJ_MarkIndexing(e)
  \/ \E e \in Execs : PJ_DeleteChunks(e)
  \/ \E e \in Execs : PJ_CreateChunk(e)
  \/ \E e \in Execs : PJ_EnsureVectorStore(e)
  \/ \E e \in Execs : PJ_CreateVectorStore(e)
  \/ \E e \in Execs : PJ_UpdateDocument(e)
  \/ \E e \in Execs : PJ_MarkDone(e)
  \/ \E e \in Execs : PJ_Catch(e)
  \/ \E m \in Manuals : \E c \in Cases : M_Start(m, c)
  \/ \E e \in Runners : R_Acquire(e)
  \/ \E e \in Runners : R_Docs(e)
  \/ \E e \in Runners : R_Load(e)
  \/ \E e \in Runners : R_Delete(e)
  \/ \E e \in Runners : \E output \in ExtractionOutputs : R_Extract(e, output)
  \/ \E e \in Runners : R_Release(e)
  \/ \E e \in Runners : \E message \in FaultMessages(exec[e]) : Fault(e, message)

SpecIngest == InitIngest /\ [][NextIngest]_vars

(***************************************************************************)
(* SpecIngest: properties.                                                 *)
(***************************************************************************)

\* The runners of case c that are inside rebuildCaseMemory.
Rebuilding(c) == { e \in Runners : exec[e].caseId = c /\ exec[e].pc \in RebuildSteps }

\* C1: memory-rebuild mutual exclusion.  For every case at most one runner
\* (processJob execution or manual request) is inside rebuildCaseMemory; a
\* runner inside it won the lock and the flag is set; an acquire returns true
\* exactly when the flag was clear, so of the callers racing on a free lock one
\* wins and the others, finding it set, lose; a loser never runs extraction.
C1_MutualExclusion ==
  /\ \A c \in Cases : Cardinality(Rebuilding(c)) <= 1
  /\ \A e \in Runners :
       /\ exec[e].pc \in RebuildSteps \cup {"release"} =>
            /\ exec[e].lockResult = "won"
            /\ caseTable[exec[e].caseId].memoryRebuildInProgress
       /\ exec[e].lockResult = "won" => ~exec[e].flagSeen
       /\ exec[e].lockResult = "lost" =>
            /\ exec[e].flagSeen
            /\ ~exec[e].ranExtraction
            /\ exec[e].pc = "end"
       /\ exec[e].ranExtraction => exec[e].lockResult = "won"
  /\ \A e1, e2 \in Runners :
       /\ e1 # e2
       /\ exec[e1].caseId = exec[e2].caseId
       /\ exec[e1].pc \in RebuildSteps \cup {"release"}
       => exec[e2].pc \notin RebuildSteps \cup {"release"}

\* C1 witness: a processJob execution and a manual request raced on the free
\* lock of one case; one is extracting, the other lost and has returned.
C1_Witness ==
  \E e1, e2 \in Runners :
    /\ exec[e1].kind = "job"
    /\ exec[e2].kind = "manual"
    /\ exec[e1].caseId = exec[e2].caseId
    /\ exec[e1].raced /\ exec[e2].raced
    /\ exec[e1].lockResult = "won" /\ exec[e1].ranExtraction
    /\ exec[e1].pc \in RebuildSteps \cup {"release"}
    /\ exec[e2].lockResult = "lost" /\ exec[e2].outcome = "in_progress"

\* The status writes of a run in which every step succeeds.
StatusOrder == <<"extracting", "ready_to_index", "indexing", "done">>

IsPrefix(s, t) == Len(s) <= Len(t) /\ \A k \in 1..Len(s) : s[k] = t[k]

\* A processJob execution on an existing job that is not an archive.
NonZipRun(e) ==
  /\ exec[e].kind = "job"
  /\ exec[e].jobId \in 1..Len(job)
  /\ getExtension(job[exec[e].jobId].file.filename) # EXT_ZIP

\* C2: ingest status order.  In a processJob execution on a non-zip job in
\* which no step has failed, the statuses written so far are a prefix of
\* extracting, ready_to_index, indexing, done; they are all four once the job
\* is marked done; and while the execution runs with no other execution
\* writing the job's status the persisted status is the last one written.
C2_StatusOrder ==
  \A e \in Execs :
    (NonZipRun(e) /\ exec[e].failedAt = "none") =>
      /\ IsPrefix(exec[e].trace, StatusOrder)
      /\ exec[e].pc \in {"acquireLock", "release", "end"} \cup RebuildSteps =>
           exec[e].trace = StatusOrder
      /\ (exec[e].pc # "end" /\ ~exec[e].interfered /\ exec[e].trace # <<>>) =>
           job[exec[e].jobId].status = exec[e].trace[Len(exec[e].trace)]

\* C2 witness: a run on a PDF job has returned with no failure, having
\* written the four statuses, and the job is done.
C2_Witness ==
  \E e \in Execs :
    /\ NonZipRun(e)
    /\ job[exec[e].jobId].file = PdfFile
    /\ exec[e].pc = "end" /\ exec[e].outcome = "returned"
    /\ exec[e].failedAt = "none"
    /\ exec[e].trace = StatusOrder
    /\ job[exec[e].jobId].status = "done"

\* C3: failure capture.  A processJob invocation in which a step inside the
\* try block failed, and that ran alone, ends with the job in status error,
\* carrying the failure's message, and error is a status the batch driver
\* selects.
C3_FailureCaptured ==
  \A e \in Execs :
    ( /\ exec[e].kind = "job"
      /\ exec[e].pc = "end"
      /\ exec[e].failedAt \notin {"none", "lookup"}
      /\ \A r \in Runners \ {e} : exec[r].pc = "idle" )
    => /\ job[exec[e].jobId].status = "error"
       /\ job[exec[e].jobId].error = exec[e].error
       /\ job[exec[e].jobId].status \in RetrySelected

\* The number of chunks one fresh run produces for a job's file.
FreshCount(j) == Len(buildChunks(extractTextFromBuffer(job[j].file).pages))

\* C4: idempotent reprocessing.  When a processJob execution has deleted the
\* document's chunks and inserted the new ones, with no other execution
\* writing that document's chunks in between, the document has exactly as
\* many chunks as one fresh run produces, however many runs preceded.
C4_IdempotentReprocessing ==
  \A e \in Execs :
    (exec[e].kind = "job" /\ exec[e].chunkCount # -1 /\ ~exec[e].overlapped) =>
      exec[e].chunkCount = FreshCount(exec[e].jobId)

\* C4 witness: the PDF processed before the start has been processed twice
\* more, one run after the other; the last run found two chunks, deleted
\* them and left two.
C4_Witness ==
  /\ openaiFiles = 3
  /\ Len(document) = 1
  /\ exec[1].kind = "job" /\ exec[1].pc = "end" /\ exec[1].trace = StatusOrder
  /\ exec[2].pc = "idle"
  /\ exec[1].priorCount = 2 /\ exec[1].chunkCount = 2 /\ ~exec[1].overlapped
  /\ ChunkCountOf(documentChunk, 1) = 2

\* C11: a processJob execution on a .zip job never writes ready_to_index or
\* indexing and leaves no chunk for the archive's Document; when it ends
\* without a failure it wrote extracting then done, the parent job is done,
\* and it created exactly one job per entry of the archive, in entry order,
\* each queued (until another execution writes its status), each linked to a Document this run
\* created for it, no two of them (and no other job) linked to the same one.
C11_ZipFanOut ==
  \A e \in Execs :
    LET x == exec[e]
    IN  (x.kind = "job" /\ x.jobId \in 1..Len(job)
         /\ getExtension(job[x.jobId].file.filename) = EXT_ZIP)
        => /\ \A k \in 1..Len(x.trace) : x.trace[k] \notin {"ready_to_index", "indexing"}
           /\ x.documentId # NullId => ChunkCountOf(documentChunk, x.documentId) = 0
           /\ (x.pc = "end" /\ x.failedAt = "none" /\ x.outcome = "returned")
                => LET entries == job[x.jobId].file.entries
                   IN  /\ x.trace = <<"extracting", "done">>
                       /\ ~x.interfered => job[x.jobId].status = "done"
                       /\ Len(x.children) = Len(entries)
                       /\ \A k \in 1..Len(x.children) :
                            LET child == job[x.children[k]]
                            IN  /\ child.file = entries[k]
                                /\ child.caseId = x.caseId
                                /\ ~x.interfered => child.status = "queued"
                                /\ child.documentId \in 1..Len(document)
                                /\ child.documentId # x.documentId
                                /\ document[child.documentId].byJob = x.jobId
                                /\ \A j \in 1..Len(job) :
                                     j # x.children[k] => job[j].documentId # child.documentId

\* C11 witness: the archive of two entries has been processed; jobs 2 and 3
\* are its two queued children, linked to Documents 2 and 3.
C11_Witness ==
  /\ exec[1].kind = "job" /\ exec[1].pc = "end" /\ exec[1].jobId = 1
  /\ job[1].file = ZipFile /\ job[1].status = "done"
  /\ exec[1].children = <<2, 3>>
  /\ Len(job) = 3
  /\ job[2].status = "queued" /\ job[2].documentId = 2
  /\ job[3].status = "queued" /\ job[3].documentId = 3
  /\ ChunkCountOf(documentChunk, 1) = 0

\* C12: a processJob execution on a job whose extension has no extractor
\* (d.rar) never writes ready_to_index and never deletes or inserts a chunk,
\* and no chunk exists for its Document; when it ends on that failure with the
\* catch block's write made, it wrote extracting then error, and the job is in
\* error with the message "Unsupported file type: .rar" (until another
\* execution writes its status).
C12_UnsupportedFormat ==
  \A e \in Execs :
    LET x == exec[e]
    IN  (x.kind = "job" /\ x.jobId \in 1..Len(job) /\ job[x.jobId].file = RarFile)
        => /\ \A k \in 1..Len(x.trace) : x.trace[k] # "ready_to_index"
           /\ x.priorCount = -1 /\ x.chunkCount = -1
           /\ x.documentId # NullId => ChunkCountOf(documentChunk, x.documentId) = 0
           /\ (x.pc = "end" /\ x.failedAt = "fetchExtract" /\ x.outcome = "returned"
               /\ x.error \notin FaultMessages([x EXCEPT !.pc = "fetchExtract"]))
                => /\ x.trace = <<"extracting", "error">>
                   /\ x.error = <<"Unsupported file type: .", "r", "a", "r">>
                   /\ ~x.interfered
                        => /\ job[x.jobId].status = "error"
                           /\ job[x.jobId].error = <<"Unsupported file type: .", "r", "a", "r">>

\* C12 witness: d.rar has been processed and is in error with the message.
C12_Witness ==
  /\ exec[1].kind = "job" /\ exec[1].pc = "end" /\ exec[1].jobId = 1
  /\ exec[2].pc = "idle"
  /\ job[1].file = RarFile
  /\ job[1].status = "error"
  /\ job[1].error = <<"Unsupported file type: .", "r", "a", "r">>
  /\ exec[1].trace = <<"extracting", "error">>
  /\ documentChunk = <<>>

\* C16: no two processJob executions that operate on the same Document are
\* in flight at the same time.
C16_NoConcurrentDocument ==
  \A a, b \in Execs :
    (/\ a # b
     /\ exec[a].kind = "job" /\ exec[a].pc \notin {"idle", "end"}
     /\ exec[b].kind = "job" /\ exec[b].pc \notin {"idle", "end"}
     /\ exec[a].documentId # NullId)
    => exec[a].documentId # exec[b].documentId

\* The runners that hold case c's lock: they won it and have not released it.
Holders(c) ==
  { e \in Runners : /\ exec[e].caseId = c
                    /\ exec[e].lockResult = "won"
                    /\ exec[e].pc \in RebuildSteps \cup {"release"} }

C20_SkippedMadeUp ==
  \A a, c \in Execs :
    (/\ a # c
     /\ exec[a].kind = "job" /\ exec[a].pc = "end" /\ exec[a].lockResult = "lost"
     /\ exec[c].kind = "job" /\ exec[c].pc = "end" /\ exec[c].lockResult = "won"
     /\ exec[c].caseId = exec[a].caseId
     /\ exec[c].failedAt = "none"
     /\ ChunkCountOf(documentChunk, exec[a].documentId) > 0)
    => \E k \in 1..Len(exec[c].extracted) : exec[c].extracted[k] = exec[a].documentId

\* C24: a manual rebuild request whose acquire finds the lock held ends at once
\* with the status in_progress; the step leaves the case rows (the lock flag
\* among them) and the memory rows as they were, and the request, being over,
\* has run no extraction.
C24_ContentionReported ==
  [][\A m \in Manuals :
       (exec[m].pc = "acquireLock" /\ exec'[m].lockResult = "lost")
       => /\ caseTable[exec[m].caseId].memoryRebuildInProgress
          /\ exec'[m].pc = "end"
          /\ exec'[m].outcome = "in_progress"
          /\ ~exec'[m].ranExtraction
          /\ exec'[m].extracted = <<>>
          /\ caseTable' = caseTable
          /\ caseMemory' = caseMemory]_vars

\* C24 witness: a manual request has answered in_progress while another
\* runner of the case, holding the lock, is still inside rebuildCaseMemory.
C24_Witness ==
  \E m \in Manuals : \E e \in Execs :
    /\ exec[m].kind = "manual" /\ exec[m].pc = "end"
    /\ exec[m].lockResult = "lost" /\ exec[m].outcome = "in_progress"
    /\ exec[e].caseId = exec[m].caseId
    /\ exec[e].lockResult = "won" /\ exec[e].pc \in RebuildSteps
    /\ caseTable[exec[m].caseId].memoryRebuildInProgress

\* C29: in the trace of status writes of a processJob execution error never
\* comes after done.
C29_DoneTerminal ==
  \A e \in Execs :
    \A k, l \in 1..Len(exec[e].trace) :
      (k < l /\ exec[e].trace[k] = "done") => exec[e].trace[l] # "error"

\* C33: when every job belongs to one case, at most one vector store is ever
\* created, and in every case each Document that has a vectorStoreId has the
\* handle stored on its Case.
C33_SingleVectorStore ==
  /\ \A c \in Cases :
       (\A j \in 1..Len(job) : job[j].caseId = c) => vectorStores <= 1
  /\ \A d \in 1..Len(document) :
       document[d].vectorStoreId # NullId
         => document[d].vectorStoreId = caseTable[document[d].caseId].vectorStoreId

\* C34: no document has two DocumentChunk rows with the same chunkIndex.
C34_ChunkIndexUnique ==
  \A k, l \in 1..Len(documentChunk) :
    (k # l /\ documentChunk[k].documentId = documentChunk[l].documentId)
      => documentChunk[k].chunkIndex # documentChunk[l].chunkIndex

\* The Documents processJob created for job j itself (byJob and entry are
\* history: the job whose execution created the row, and the archive entry it
\* was created for, 0 for the job's own Document).
OwnDocuments(j) ==
  { d \in 1..Len(document) : document[d].byJob = j /\ document[d].entry = 0 }

\* C35: over all its processing attempts a job has at most one Document
\* created for it.
C35_OneDocumentPerJob ==
  \A j \in 1..Len(job) : Cardinality(OwnDocuments(j)) <= 1

\* C36: a job's error message is set exactly when its status is error.
C36_ErrorMatchesStatus ==
  \A j \in 1..Len(job) : job[j].error # NoError <=> job[j].status = "error"

\* The processJob executions in flight on job j.
InFlight(j) ==
  { e \in Execs : exec[e].kind = "job" /\ exec[e].jobId = j /\ exec[e].pc \notin {"idle", "end"} }

\* C37: a processJob invocation that wrote extracting and is over, with no
\* other execution writing the job's status since, has left the job in done
\* or error; and a job in extracting or indexing with no invocation in flight
\* has a status the unfiltered request selects.
C37_NotStranded ==
  /\ \A e \in Execs :
       (/\ exec[e].kind = "job" /\ exec[e].pc = "end" /\ ~exec[e].interfered
        /\ \E k \in 1..Len(exec[e].trace) : exec[e].trace[k] = "extracting")
         => job[exec[e].jobId].status \in {"done", "error"}
  /\ \A j \in 1..Len(job) :
       (job[j].status \in {"extracting", "indexing"} /\ InFlight(j) = {})
         => job[j].status \in RetrySelected

\* The steps of processJob from the chunk deletion on.
FromDeletion ==
  {"deleteChunks", "createChunk", "ensureVectorStore", "createVectorStore", "updateDocument",
   "markDone", "acquireLock", "release"} \cup RebuildSteps

\* The DocumentChunk rows of a document, in insertion order.
ChunksOf(documentId) ==
  LET Mine(row) == row.documentId = documentId
  IN  SelectSeq(documentChunk, Mine)

MAX_CONCURRENCY == 12
MAX_JOBS == 50

\* Processing requests made.
MaxRequests == 2
\* processJob promises and reads that reject.
MaxBatchFaults == 1
\* Jobs beyond a full group and beyond a full batch at the start.
ExtraJobs == 1

\* The numbers of jobs in the store at the start.
BatchSizes == {1, 2, MAX_CONCURRENCY + ExtraJobs, MAX_JOBS + ExtraJobs}

\* The stores at the start, n uploads in creation order: plain text files;
\* the first one of a type with no extractor, or an encrypted PDF, or already
\* done, or of another case; or a full batch of files with no extractor first.
BatchPatterns == {"text", "rar", "locked", "done", "other", "rarBatch"}

BatchStore(n, pattern) ==
  [j \in 1..n |->
     IF pattern = "rarBatch" /\ j <= MAX_JOBS THEN UploadedJob(1, RarFile)
     ELSE IF j > 1 \/ pattern \in {"text", "rarBatch"} THEN UploadedJob(1, TextFile)
     ELSE IF pattern = "rar" THEN UploadedJob(1, RarFile)
     ELSE IF pattern = "locked" THEN UploadedJob(1, LockedPdf)
     ELSE IF pattern = "done" THEN [UploadedJob(1, TextFile) EXCEPT !.status = "done"]
     ELSE UploadedJob(2, TextFile)]

InitBatch ==
  /\ ChunkIdle
  /\ IngestIdle
  /\ ChatIdle
  /\ MemIdle
  /\ RefIdle
  /\ OpenaiIdle
  /\ \E n \in BatchSizes : \E pattern \in BatchPatterns : bJob = BatchStore(n, pattern)
  /\ bReq = <<>>
  /\ bFlight = {}
  /\ bFaults = 0

batchOnly == UNCHANGED <<chunkVars, ingestVars, chatVars, memVars, refVars, openaiVars>>

\* The where clause of the request: the ids named, or the case's jobs in a
\* status the filter lists.
JobSelected(j, c, ids) ==
  IF ids # {}
    THEN j \in ids
    ELSE bJob[j].caseId = c /\ bJob[j].status \in RetrySelected

\* take: the first n of a list.
Take(list, n) == SubSeq(list, 1, Min2(n, Len(list)))

\* The job ids a request names.
IdChoices == { {}, {1}, {Len(bJob)} }

\* POST up to the findMany: the jobs in creation order, at most MAX_JOBS.  seen
\* is history: each job's status when its row was read.
B_Select(c, ids) ==
  LET Where(j) == JobSelected(j, c, ids)
      jobs     == Take(SelectSeq([j \in 1..Len(bJob) |-> j], Where), MAX_JOBS)
  IN  /\ Len(bReq) < MaxRequests
      /\ \A r \in 1..Len(bReq) : bReq[r].state = "returned"
      /\ bFlight = {}
      /\ bReq' = Append(bReq,
           [caseId |-> c, ids |-> ids, jobs |-> jobs, from |-> 0, i |-> 0,
            state |-> "running", status |-> 0, rejected |-> {},
            seen |-> [j \in 1..Len(bJob) |-> bJob[j].status]])
      /\ UNCHANGED <<bJob, bFlight, bFaults>>
      /\ batchOnly

\* The pending promises of request r.
Pending_(r) == { f \in bFlight : f[1] = r }

\* The end of the slice that starts at offset i of n jobs.
GroupEnd_All(i, n) == n
GroupEnd(i, n) == Min2(i + MAX_CONCURRENCY, n)

\* One turn of the for loop: processJob is called on every job of the slice.
\* The turn is taken once Promise.all of the turn before has fulfilled.
B_StartGroup(r) ==
  LET q   == bReq[r]
      end == GroupEnd(q.i, Len(q.jobs))
  IN  /\ q.state = "running"
      /\ Pending_(r) = {}
      /\ q.i < Len(q.jobs)
      /\ bFlight' = bFlight \cup { <<r, q.jobs[k]>> : k \in (q.i + 1)..end }
      /\ bReq' = [bReq EXCEPT ![r].from = q.i, ![r].i = end]
      /\ UNCHANGED <<bJob, bFaults>>
      /\ batchOnly

\* The pending jobs of request r whose settling is interleaved: the first
\* and the last.
SettlesNext(r) ==
  LET pending == { f[2] : f \in Pending_(r) }
  IN  { j \in pending : (\A k \in pending : j <= k) \/ (\A k \in pending : j >= k) }

\* processJob on job j runs to its end: done, or the catch block's error.
B_Finish(r, j) ==
  LET result == extractTextFromBuffer(bJob[j].file)
  IN  /\ j \in SettlesNext(r)
      /\ bJob' = [bJob EXCEPT ![j].status = IF result.ok THEN "done" ELSE "error",
                              ![j].error = result.message]
      /\ bFlight' = bFlight \ { <<r, j>> }
      /\ UNCHANGED <<bReq, bFaults>>
      /\ batchOnly

\* The jobs whose processJob may reject: the oldest and the newest.
FaultyJobs == {1, Len(bJob)}

\* processJob on job j rejects: its first read threw (at = "lookup"), or a
\* step threw after the extracting write and the catch block's update threw
\* too (at = "catch").  Promise.all rejects, the loop is left and the request
\* answers 500; the other promises of the group stay pending.
B_Reject(r, j, at) ==
  /\ bFaults < MaxBatchFaults
  /\ bFaults' = bFaults + 1
  /\ j \in SettlesNext(r)
  /\ j \in FaultyJobs
  /\ bJob' = IF at = "catch" THEN [bJob EXCEPT ![j].status = "extracting", ![j].error = NoError]
             ELSE bJob
  /\ bFlight' = bFlight \ { <<r, j>> }
  /\ bReq' = IF bReq[r].state = "running"
               THEN [bReq EXCEPT ![r].state = "returned", ![r].status = 500,
                                 ![r].rejected = @ \cup {j}]
               ELSE [bReq EXCEPT ![r].rejected = @ \cup {j}]
  /\ batchOnly

\* The loop is over: the request answers with the number of jobs.
B_Return(r) ==
  /\ bReq[r].state = "running"
  /\ Pending_(r) = {}
  /\ bReq[r].i >= Len(bReq[r].jobs)
  /\ bReq' = [bReq EXCEPT ![r].state = "returned", ![r].status = 200]
  /\ UNCHANGED <<bJob, bFlight, bFaults>>
  /\ batchOnly

NextBatch ==
  \/ \E ids \in IdChoices : B_Select(1, ids)
  \/ \E r \in 1..Len(bReq) : B_StartGroup(r)
  \/ \E r \in 1..Len(bReq) : \E j \in 1..Len(bJob) : B_Finish(r, j)
  \/ \E r \in 1..Len(bReq) : \E j \in 1..Len(bJob) : \E at \in {"lookup", "catch"} :
       B_Reject(r, j, at)
  \/ \E r \in 1..Len(bReq) : B_Return(r)

SpecBatch == InitBatch /\ [][NextBatch]_vars

\* The jobs request r has called processJob on.
Started(r) == { bReq[r].jobs[k] : k \in 1..bReq[r].i }

\* The requests that name no job ids.
Unfiltered == { r \in 1..Len(bReq) : bReq[r].ids = {} }

\* The jobs request r has processed: processJob ran to its end on them.
Processed(r) == Started(r) \ ({ f[2] : f \in Pending_(r) } \cup bReq[r].rejected)

\* C13: a request that names no job ids never selects, and so never calls
\* processJob on, a job whose status was done when the request read the jobs.
C13_DoneNotReprocessed ==
  \A r \in Unfiltered :
    \A k \in 1..Len(bReq[r].jobs) : bReq[r].seen[bReq[r].jobs[k]] # "done"

\* A request without ids has answered having processed a job and left a done
\* job of its case alone; a request naming that job has then processed it.
C13_Witness ==
  \E r \in Unfiltered : \E s \in 1..Len(bReq) : \E j \in 1..Len(bJob) :
    /\ bReq[r].state = "returned" /\ bReq[r].status = 200
    /\ Started(r) # {}
    /\ bJob[j].caseId = bReq[r].caseId
    /\ bReq[r].seen[j] = "done"
    /\ j \notin Started(r)
    /\ bReq[s].ids = {j}
    /\ bReq[s].seen[j] = "done"
    /\ j \in Started(s)
    /\ bReq[s].state = "returned"

\* C14: a request that names no job ids never calls processJob on a job it
\* read in error whose file has no extractor or is an encrypted PDF.
C14_FormatErrorNotRetried ==
  \A r \in Unfiltered : \A j \in Started(r) :
    ~(/\ bReq[r].seen[j] = "error"
      /\ ~extractTextFromBuffer(bJob[j].file).ok)

\* C15: a request that names no job ids and has answered 200 has called
\* processJob on every job of its case that it read in a retry-eligible status.
C15_RetryPickup ==
  \A r \in Unfiltered :
    (bReq[r].state = "returned" /\ bReq[r].status = 200)
    => \A j \in 1..Len(bJob) :
         (/\ bJob[j].caseId = bReq[r].caseId
          /\ bReq[r].seen[j] \in {"queued", "uploaded", "ready_to_index", "error"})
         => j \in Started(r)

\* C17: once a request has answered and none of its promises is pending, every
\* job it selected other than those whose processJob rejected has been
\* processed by it to done or error.
C17_FailureIsolation ==
  \A r \in 1..Len(bReq) :
    (bReq[r].state = "returned" /\ Pending_(r) = {})
    => \A k \in 1..Len(bReq[r].jobs) :
         bReq[r].jobs[k] \notin bReq[r].rejected => bReq[r].jobs[k] \in Processed(r)

\* C18: the jobs of a request are in creation order and at most MAX_JOBS; at
\* most MAX_CONCURRENCY of its promises are pending, all of them of the
\* current group, and the jobs it has started are those before the end of
\* the current group.
C18_BoundedDispatch ==
  \A r \in 1..Len(bReq) :
    LET q == bReq[r]
    IN  /\ \A k \in 1..(Len(q.jobs) - 1) : q.jobs[k] < q.jobs[k + 1]
        /\ Len(q.jobs) <= MAX_JOBS
        /\ q.i <= Len(q.jobs)
        /\ q.i - q.from <= MAX_CONCURRENCY
        /\ Cardinality(Pending_(r)) <= MAX_CONCURRENCY
        /\ \A f \in Pending_(r) : \E k \in (q.from + 1)..q.i : q.jobs[k] = f[2]

\* More than MAX_JOBS jobs were eligible; the request took MAX_JOBS of them
\* and its second group is in flight in full after the first was processed.
C18_Witness ==
  \E r \in Unfiltered :
    /\ Cardinality({ j \in 1..Len(bJob) : bReq[r].seen[j] \in RetrySelected }) > MAX_JOBS
    /\ Len(bReq[r].jobs) = MAX_JOBS
    /\ bReq[r].from = MAX_CONCURRENCY
    /\ Cardinality(Pending_(r)) = MAX_CONCURRENCY
    /\ \A k \in 1..MAX_CONCURRENCY : bReq[r].jobs[k] \in Processed(r)

(***************************************************************************)
(* SpecMemory: rebuildCaseMemory, called once the lock is held, so one     *)
(* call after the other.  A model output is a text of tokens: prose, an    *)
(* opening brace, a closing brace, or the body of an object.               *)
(***************************************************************************)

\* The chunks of one extraction call.
BATCH_SIZE == 20

\* rebuildCaseMemory calls made.
MaxRebuilds == 2
\* Extraction calls that time out and database calls that throw.
MaxMemFaults == 1
\* Chunks beyond a full batch in the longest document.
ExtraChunks == 1

Tables == <<"caseEntity", "caseFact", "timelineEvent", "obligation">>

Confidence == {"high", "medium", "low"}

Item(name, confidence) == [name |-> name, confidence |-> confidence]

\* The body of a JSON object with the fields of MemoryExtractionSchema.
Payload(documentType, entities, facts, timeline, obligations) ==
  [document_type |-> documentType, caseEntity |-> entities, caseFact |-> facts,
   timelineEvent |-> timeline, obligation |-> obligations]

NoPayload == Payload("", <<>>, <<>>, <<>>, <<>>)

Prose     == [t |-> "prose", v |-> NoPayload]
OpenBrace == [t |-> "{", v |-> NoPayload]
CloseBrace == [t |-> "}", v |-> NoPayload]
Body(payload) == [t |-> "body", v |-> payload]

\* What the extraction model returns: an object with an entity and a fact; an
\* object with a timeline event and an obligation inside prose; an object
\* with nothing in it; an object with a confidence the schema does not list;
\* prose with no object; an object cut short.
OutputItems   == <<OpenBrace,
                   Body(Payload("order", <<Item("e1", "high")>>, <<Item("f1", "medium")>>,
                                <<>>, <<>>)),
                   CloseBrace>>
OutputFenced  == <<Prose, OpenBrace,
                   Body(Payload("", <<>>, <<>>, <<Item("t1", "low")>>, <<Item("o1", "high")>>)),
                   CloseBrace, Prose>>
OutputNothing == <<OpenBrace, Body(Payload("letter", <<>>, <<>>, <<>>, <<>>)), CloseBrace>>
OutputOffSchema == <<OpenBrace,
                     Body(Payload("order", <<Item("e2", "certain")>>, <<>>, <<>>, <<>>)),
                     CloseBrace>>
OutputProse   == <<Prose>>
OutputCut     == <<OpenBrace, Prose, CloseBrace>>

OutputTexts ==
  {OutputItems, OutputFenced, OutputNothing, OutputOffSchema, OutputProse, OutputCut}

\* indexOf and lastIndexOf of a token, 0 when it is absent (-1 in the code).
IndexOf(text, token) ==
  IF \E k \in 1..Len(text) : text[k] = token
    THEN CHOOSE k \in 1..Len(text) :
           text[k] = token /\ \A n \in 1..(k - 1) : text[n] # token
    ELSE 0

LastIndexOf(text, token) ==
  IF \E k \in 1..Len(text) : text[k] = token
    THEN CHOOSE k \in 1..Len(text) :
           text[k] = token /\ \A n \in (k + 1)..Len(text) : text[n] # token
    ELSE 0

NoJsonMessage == <<"No JSON object found in model output.">>
SyntaxMessage == <<"Unexpected token in JSON">>
TimeoutMessage == <<"memory_extraction timed out">>

\* extractJson: the text from the first opening to the last closing brace.
extractJson(text) ==
  LET first == IndexOf(text, OpenBrace)
      last  == LastIndexOf(text, CloseBrace)
  IN  IF first = 0 \/ last = 0 \/ last <= first
        THEN [ok |-> FALSE, text |-> <<>>, message |-> NoJsonMessage]
        ELSE [ok |-> TRUE, text |-> SubSeq(text, first, last), message |-> NoError]

\* JSON.parse of what extractJson returned.
JsonParse(text) ==
  IF Len(text) = 3 /\ text[2].t = "body"
    THEN [ok |-> TRUE, value |-> text[2].v, message |-> NoError]
    ELSE [ok |-> FALSE, value |-> NoPayload, message |-> SyntaxMessage]

\* MemoryExtractionSchema.safeParse(payload).success
SchemaAccepts_Any(payload) == TRUE
SchemaAccepts(payload) ==
  \A k \in 1..Len(Tables) :
    \A n \in 1..Len(payload[Tables[k]]) : payload[Tables[k]][n].confidence \in Confidence

\* chunkBatches: the sizes of the batches of n chunks.
chunkBatches(n, batchSize) ==
  [k \in 1..((n + batchSize - 1) \div batchSize) |->
     Min2(batchSize, n - (k - 1) * batchSize)]

MemDocument(c, chunks) == [caseId |-> c, chunks |-> chunks, documentType |-> ""]

\* The stores at the start: the case's documents in creation order, with
\* two batches of chunks, one batch or none; one of them of another case.
MemStores ==
  { <<MemDocument(1, BATCH_SIZE + ExtraChunks)>>,
    <<MemDocument(1, 1), MemDocument(1, BATCH_SIZE + ExtraChunks)>>,
    <<MemDocument(1, 0), MemDocument(1, 1)>>,
    <<MemDocument(2, 1), MemDocument(1, 1)>> }

MemRow(table, c, documentId, item, by) ==
  [table |-> table, caseId |-> c, documentId |-> documentId, item |-> item, by |-> by]

\* Rows an earlier rebuild left: one entity and one obligation per document.
StaleRows(documents) ==
  [k \in 1..(2 * Len(documents)) |->
     LET d == (k + 1) \div 2
     IN  MemRow(IF k % 2 = 1 THEN "caseEntity" ELSE "obligation",
                documents[d].caseId, d, Item("old", "high"), 0)]

NoItems == [table \in {Tables[k] : k \in 1..Len(Tables)} |-> <<>>]

InitMemory ==
  /\ ChunkIdle
  /\ IngestIdle
  /\ ChatIdle
  /\ BatchIdle
  /\ RefIdle
  /\ OpenaiIdle
  /\ memDocument \in MemStores
  /\ memRows \in {<<>>, StaleRows(memDocument)}
  /\ memRun = <<>>
  /\ memPast = <<>>

memOnly == UNCHANGED <<chunkVars, ingestVars, chatVars, batchVars, refVars, openaiVars>>

\* The documentIds a caller passes: none, the first document, the last.
DocumentIdChoices == { <<>>, <<1>>, <<Len(memDocument)>> }

\* rebuildCaseMemory is called.  calls and accepted are history: the
\* extraction calls made with what became of each, and the items taken;
\* faults counts the timeouts and database errors of all calls so far.
M_Call(c, documentIds) ==
  /\ memRun = <<>>
  /\ Len(memPast) < MaxRebuilds
  /\ memRun' = [pc |-> "docs", caseId |-> c, documentIds |-> documentIds,
                documents |-> <<>>, d |-> 0, batches |-> <<>>, b |-> 0, t |-> 0,
                all |-> NoItems, documentType |-> "",
                calls |-> <<>>, accepted |-> <<>>, error |-> NoError,
                faults |-> IF memPast = <<>> THEN 0 ELSE memPast[Len(memPast)].faults]
  /\ UNCHANGED <<memDocument, memRows, memPast>>
  /\ memOnly

\* document.findMany: the case's documents, all or the ones asked for.
M_Docs ==
  LET x == memRun
      Wanted(k) ==
        /\ memDocument[k].caseId = x.caseId
        /\ \/ x.documentIds = <<>>
           \/ \E n \in 1..Len(x.documentIds) : x.documentIds[n] = k
      documents == SelectSeq([k \in 1..Len(memDocument) |-> k], Wanted)
  IN  /\ memRun # <<>> /\ x.pc = "docs"
      /\ memRun' = [x EXCEPT !.pc = IF documents = <<>> THEN "return" ELSE "load",
                             !.documents = documents, !.d = 1]
      /\ UNCHANGED <<memDocument, memRows, memPast>>
      /\ memOnly

\* The for loop over the documents moves on.
MemNextDocument(x) ==
  IF x.d < Len(x.documents)
    THEN [x EXCEPT !.pc = "load", !.d = x.d + 1]
    ELSE [x EXCEPT !.pc = "return"]

\* documentChunk.findMany; a document without chunks is skipped.
M_Load ==
  LET x == memRun
      chunks == memDocument[x.documents[x.d]].chunks
  IN  /\ memRun # <<>> /\ x.pc = "load"
      /\ memRun' = IF chunks = 0 THEN MemNextDocument(x)
                   ELSE [x EXCEPT !.pc = "delete", !.t = 1,
                                  !.batches = chunkBatches(chunks, BATCH_SIZE), !.b = 1,
                                  !.all = NoItems, !.documentType = ""]
      /\ UNCHANGED <<memDocument, memRows, memPast>>
      /\ memOnly

\* The where clause of the four deleteMany calls.
MemoryDeleteMatches_Nothing(row, table, c, documentId) == FALSE
MemoryDeleteMatches(row, table, c, documentId) ==
  row.table = table /\ row.caseId = c /\ row.documentId = documentId

\* One of the four deleteMany calls, in the order of the code.
M_Delete ==
  LET x == memRun
      Kept(row) == ~MemoryDeleteMatches(row, Tables[x.t], x.caseId, x.documents[x.d])
  IN  /\ memRun # <<>> /\ x.pc = "delete"
      /\ memRows' = SelectSeq(memRows, Kept)
      /\ memRun' = IF x.t < Len(Tables) THEN [x EXCEPT !.t = x.t + 1]
                   ELSE [x EXCEPT !.pc = "extract"]
      /\ UNCHANGED <<memDocument, memPast>>
      /\ memOnly

\* The loop over the batches moves on.
MemNextBatch(x) ==
  IF x.b < Len(x.batches) THEN [x EXCEPT !.b = x.b + 1] ELSE [x EXCEPT !.pc = "setType"]

\* rebuildCaseMemory throws: nothing in it catches.
MemThrow(x, message) == [x EXCEPT !.pc = "threw", !.error = message]

Called(x, result) ==
  [x EXCEPT !.calls = Append(x.calls, [d |-> x.documents[x.d], b |-> x.b, result |-> result])]

\* One turn of the batch loop with the model answering text: extractJson,
\* JSON.parse, safeParse, then the items are pushed.
M_Extract(text) ==
  LET x       == memRun
      json    == extractJson(text)
      payload == JsonParse(json.text)
      data    == payload.value
  IN  /\ memRun # <<>> /\ x.pc = "extract"
      /\ memRun' =
           IF ~json.ok THEN MemThrow(Called(x, "no_json"), json.message)
           ELSE IF ~payload.ok THEN MemThrow(Called(x, "bad_json"), payload.message)
           ELSE IF ~SchemaAccepts(data) THEN MemNextBatch(Called(x, "off_schema"))
           ELSE MemNextBatch(
                  [Called(x, "accepted") EXCEPT
                     !.documentType = IF x.documentType = "" /\ data.document_type # ""
                                        THEN data.document_type ELSE x.documentType,
                     !.all = [table \in DOMAIN x.all |-> x.all[table] \o data[table]],
                     !.accepted = Append(x.accepted,
                                         [d |-> x.documents[x.d], b |-> x.b, data |-> data])])
      /\ UNCHANGED <<memDocument, memRows, memPast>>
      /\ memOnly

\* The 45 seconds pass before the model answers: withTimeout throws.
M_Timeout ==
  LET x == memRun
  IN  /\ memRun # <<>> /\ x.pc = "extract"
      /\ x.faults < MaxMemFaults
      /\ memRun' = MemThrow([Called(x, "timeout") EXCEPT !.faults = x.faults + 1],
                            TimeoutMessage)
      /\ UNCHANGED <<memDocument, memRows, memPast>>
      /\ memOnly

\* document.update when a batch named the document type.
M_SetType ==
  LET x == memRun
  IN  /\ memRun # <<>> /\ x.pc = "setType"
      /\ memDocument' = IF x.documentType # ""
                          THEN [memDocument EXCEPT ![x.documents[x.d]].documentType =
                                                      x.documentType]
                          ELSE memDocument
      /\ memRun' = [x EXCEPT !.pc = "insert", !.t = 1]
      /\ UNCHANGED <<memRows, memPast>>
      /\ memOnly

\* One of the four createMany calls, made when its list is not empty.
M_Insert ==
  LET x     == memRun
      table == Tables[x.t]
      items == x.all[table]
      rows  == [k \in 1..Len(items) |->
                  MemRow(table, x.caseId, x.documents[x.d], items[k], Len(memPast) + 1)]
  IN  /\ memRun # <<>> /\ x.pc = "insert"
      /\ memRows' = memRows \o rows
      /\ memRun' = IF x.t < Len(Tables) THEN [x EXCEPT !.t = x.t + 1]
                   ELSE MemNextDocument(x)
      /\ UNCHANGED <<memDocument, memPast>>
      /\ memOnly

\* A database call of the current step throws.
M_Fault ==
  LET x == memRun
  IN  /\ memRun # <<>> /\ x.pc \in {"docs", "load", "delete", "setType", "insert"}
      /\ x.faults < MaxMemFaults
      /\ memRun' = MemThrow([x EXCEPT !.faults = x.faults + 1], DbMessage)
      /\ UNCHANGED <<memDocument, memRows, memPast>>
      /\ memOnly

\* The call is over, returned or thrown; rows is history: the rows it left.
M_End ==
  LET x == memRun
  IN  /\ memRun # <<>> /\ x.pc \in {"return", "threw"}
      /\ memPast' = Append(memPast,
           [outcome |-> IF x.pc = "return" THEN "completed" ELSE "threw",
            error |-> x.error, caseId |-> x.caseId, documentIds |-> x.documentIds,
            documents |-> x.documents, calls |-> x.calls, accepted |-> x.accepted,
            faults |-> x.faults, rows |-> memRows])
      /\ memRun' = <<>>
      /\ UNCHANGED <<memDocument, memRows>>
      /\ memOnly

NextMemory ==
  \/ \E documentIds \in DocumentIdChoices : M_Call(1, documentIds)
  \/ M_Docs
  \/ M_Load
  \/ M_Delete
  \/ \E text \in OutputTexts : M_Extract(text)
  \/ M_Timeout
  \/ M_SetType
  \/ M_Insert
  \/ M_Fault
  \/ M_End

SpecMemory == InitMemory /\ [][NextMemory]_vars

\* The items of the accepted batches of document d for a table, in call order.
RECURSIVE AcceptedItems(_, _, _)
AcceptedItems(accepted, d, table) ==
  IF accepted = <<>> THEN <<>>
  ELSE (IF Head(accepted).d = d THEN Head(accepted).data[table] ELSE <<>>)
         \o AcceptedItems(Tail(accepted), d, table)

\* The rows of a table scoped to (c, d), in insertion order.
ScopedRows(rows, table, c, d) ==
  LET Scoped(row) == row.table = table /\ row.caseId = c /\ row.documentId = d
  IN  SelectSeq(rows, Scoped)

\* The rows without the mark of the rebuild that inserted them.
Unmarked(rows) ==
  [k \in 1..Len(rows) |-> [rows[k] EXCEPT !.by = 0]]

\* The documents with chunks among those rebuild n went over.
RebuiltDocuments(n) ==
  { memPast[n].documents[k] : k \in 1..Len(memPast[n].documents) }
    \cap { d \in 1..Len(memDocument) : memDocument[d].chunks > 0 }

\* After rebuild n the rows scoped to each of its documents are the items it
\* accepted for the document, all inserted by it.
ReplacedBy(n) ==
  \A d \in RebuiltDocuments(n) : \A t \in 1..Len(Tables) :
    LET rows == ScopedRows(memPast[n].rows, Tables[t], memPast[n].caseId, d)
    IN  /\ [k \in 1..Len(rows) |-> rows[k].item]
             = AcceptedItems(memPast[n].accepted, d, Tables[t])
        /\ \A k \in 1..Len(rows) : rows[k].by = n

\* Rebuild n made the extraction call of every batch of every document.
AllBatchesCalled(n) ==
  \A d \in RebuiltDocuments(n) :
    \A b \in 1..Len(chunkBatches(memDocument[d].chunks, BATCH_SIZE)) :
      \E k \in 1..Len(memPast[n].calls) :
        memPast[n].calls[k].d = d /\ memPast[n].calls[k].b = b

\* A call of rebuild n had one of the results.
HadCall(n, results) ==
  \E k \in 1..Len(memPast[n].calls) : memPast[n].calls[k].result \in results

\* C21: when rebuildCaseMemory has completed, the rows of the four tables
\* scoped to (caseId, documentId), for each document with chunks it went over,
\* are exactly the items accepted in this rebuild, none from an earlier one;
\* and a rebuild that follows a completed one with the same arguments and the
\* same extraction results leaves the same rows.
C21_FullReplace ==
  \A n \in 1..Len(memPast) :
    memPast[n].outcome = "completed"
    => /\ ReplacedBy(n)
       /\ (/\ n > 1
           /\ memPast[n - 1].outcome = "completed"
           /\ memPast[n - 1].documentIds = memPast[n].documentIds
           /\ memPast[n - 1].calls = memPast[n].calls
           /\ memPast[n - 1].accepted = memPast[n].accepted)
          => Unmarked(memPast[n].rows) = Unmarked(memPast[n - 1].rows)

\* C21 witness: two rebuilds have completed with the same extraction results,
\* which had items; rows of the second are in the store, and so is a row an
\* earlier rebuild left for a document they did not go over.
C21_Witness ==
  /\ Len(memPast) = 2 /\ memRun = <<>>
  /\ memPast[1].outcome = "completed" /\ memPast[2].outcome = "completed"
  /\ memPast[1].documentIds = memPast[2].documentIds
  /\ memPast[1].accepted = memPast[2].accepted
  /\ \E k \in 1..Len(memPast[2].accepted) : memPast[2].accepted[k].data # NoPayload
  /\ \E k \in 1..Len(memRows) : memRows[k].by = 2
  /\ \E k \in 1..Len(memRows) : memRows[k].by = 0
  /\ \A k \in 1..Len(memRows) : memRows[k].by # 1

\* C22: a rebuild in which an extraction call timed out has completed, has
\* made the call of every batch of every document, and has inserted the
\* items of the other batches.
C22_TimeoutLocal ==
  \A n \in 1..Len(memPast) :
    HadCall(n, {"timeout"})
    => /\ memPast[n].outcome = "completed"
       /\ AllBatchesCalled(n)
       /\ ReplacedBy(n)

\* C23: a rebuild in which a batch's output held no JSON object, could not be
\* parsed or failed the schema, and in which no call timed out and no
\* database call threw, has completed, has made the call of every batch of
\* every document, and has inserted the items of the other batches.
C23_InvalidSkipped ==
  \A n \in 1..Len(memPast) :
    (/\ HadCall(n, {"no_json", "bad_json", "off_schema"})
     /\ memPast[n].error \notin {TimeoutMessage, DbMessage})
    => /\ memPast[n].outcome = "completed"
       /\ AllBatchesCalled(n)
       /\ ReplacedBy(n)

(***************************************************************************)
(* SpecChat: the chat request handler (POST of the chat route).            *)
(* A text is a sequence of lower-case words and phrases; a pattern         *)
(* matches a text when one of its alternatives is among them (the          *)
(* patterns of the code ignore case).                                      *)
(***************************************************************************)

\* Passages a search returns at most.
MaxRetrieved == 1
\* Awaited operations that throw in one request.
MaxChatFaults == 2

\* RegExp.prototype.test for a pattern that is a list of alternatives.
Matches(text, alternatives) == \E k \in 1..Len(text) : text[k] \in alternatives

isDocumentContentQuestion(message) ==
  Matches(message, {"what does", "what do", "say about", "agreement", "order",
                    "policy", "report", "evidence"})

isContestedTopic(message) ==
  Matches(message, {"custody", "holiday", "schedule", "support", "abuse",
                    "violence", "relocation", "parenting"})

isMemoryQuery(message) ==
  Matches(message, {"rule", "schedule", "custody", "support", "holiday", "parenting",
                    "deadline", "notice", "obligation", "timeline", "when", "date",
                    "travel", "communication"})

isDocumentListQuery(message) ==
  Matches(message, {"what documents are on file", "what documents are uploaded",
                    "documents on file", "list documents", "what docs do we have",
                    "what files are uploaded", "list files", "list the files",
                    "list uploaded files", "show uploaded files",
                    "what files do we have", "what files are there"})

\* The memory fast path's patterns for timeline events and for obligations.
wantsTimeline(message) == Matches(message, {"timeline", "when", "date", "dated"})
wantsObligations(message) ==
  Matches(message, {"obligation", "due", "deadline", "notice", "pay", "payment"})

\* The tests of the catch blocks on an error message.
IsTimeout(message) == Matches(message, {"timed out"})
IsChunkSearch(message) == Matches(message, {"chunk_search"})

\* withTimeout's error for an aborted call.
WithTimeoutMessage(label) == <<label, " ", "timed out">>
ProviderMessage == <<"500 internal server error">>
PoolMessage == <<"timed out", " fetching a new connection from the connection pool">>
BodyMessage == <<"unexpected token in json">>

\* The part of a parsed answer the handler looks at: meta.used_retrieval, the
\* number of evidence items, and the number of source_refs of each what_helps
\* and what_hurts item.
\* other_refs: an evidence SourceRef names a document_version_id that is not
\* one of the retrieved sources.
AnswerData(used, evidence, helps, hurts) ==
  [used_retrieval |-> used, evidence |-> evidence, what_helps |-> helps, what_hurts |-> hurts,
   other_refs |-> FALSE]
NoData == AnswerData(FALSE, 0, <<>>, <<>>)

ItemLists == { <<>>, <<0>>, <<1>> }

\* What a generation call can return: text with no JSON object in it, JSON
\* that fails the answer schema, or a valid answer.
ModelOutputs ==
  { [json |-> FALSE, valid |-> FALSE, data |-> NoData],
    [json |-> TRUE, valid |-> FALSE, data |-> NoData] }
  \cup { [json |-> TRUE, valid |-> TRUE, data |-> AnswerData(u, n, h, w)] :
           u \in BOOLEAN, n \in 0..1, h \in ItemLists, w \in ItemLists }
  \cup { [json |-> TRUE, valid |-> TRUE,
          data |-> [AnswerData(u, 1, h, w) EXCEPT !.other_refs = TRUE]] :
           u \in BOOLEAN, h \in ItemLists, w \in ItemLists }

\* parseChatResponse: extractJson throws on text without an object and the
\* catch parses {} instead, which fails the schema.
parseChatResponse(output) ==
  IF output.json
    THEN [done |-> TRUE, success |-> output.valid, data |-> output.data]
    ELSE [done |-> TRUE, success |-> FALSE, data |-> NoData]
NotParsed == [done |-> FALSE, success |-> FALSE, data |-> NoData]

\* Array.prototype.some(item => item.source_refs.length === 0).
SomeUncited(items) == \E k \in 1..Len(items) : items[k] = 0

needsCitationRetry_IgnoringEvidence(data) ==
  \/ ~data.used_retrieval
  \/ SomeUncited(data.what_helps)
  \/ SomeUncited(data.what_hurts)
needsCitationRetry(data) ==
  \/ ~data.used_retrieval
  \/ data.evidence = 0
  \/ SomeUncited(data.what_helps)
  \/ SomeUncited(data.what_hurts)

validateCitationCoverage_NoContested(data, hasFiles, message) ==
  \/ hasFiles /\ ~data.used_retrieval
  \/ isDocumentContentQuestion(message) /\ data.evidence = 0
  \/ SomeUncited(data.what_helps)
  \/ SomeUncited(data.what_hurts)

validateCitationCoverage(data, hasFiles, message) ==
  \/ hasFiles /\ ~data.used_retrieval
  \/ isDocumentContentQuestion(message) /\ data.evidence = 0
  \/ isContestedTopic(message) /\ Len(data.what_hurts) = 0
  \/ SomeUncited(data.what_helps)
  \/ SomeUncited(data.what_hurts)

\* The condition under which the handler makes the retry call.
RetryWanted(parsed, hasFiles, message) ==
  \/ ~parsed.success
  \/ needsCitationRetry(parsed.data)
  \/ validateCitationCoverage(IF parsed.success THEN parsed.data ELSE NoData,
                              hasFiles, message)

\* Whether the answer parsed last is the one to return.
AnswerAccepted_IfCovered(parsed) == parsed.success /\ ~needsCitationRetry(parsed.data)
AnswerAccepted(parsed) == parsed.success

\* Response bodies.  An answer has the structured-answer shape, with the
\* actions of its next_steps; an error is the bare object { error }.
Answer(kind, confidence, data, nextSteps) ==
  [shape |-> "answer", kind |-> kind, confidence |-> confidence, data |-> data,
   next_steps |-> nextSteps]
ErrorBody(text) ==
  [shape |-> "error", kind |-> text, confidence |-> "none", data |-> NoData,
   next_steps |-> <<>>]
NoBody ==
  [shape |-> "none", kind |-> "none", confidence |-> "none", data |-> NoData,
   next_steps |-> <<>>]

UploadStep == "Upload a case document."
RetryStep == "Retry the question."
\* The next_steps of the model's own answer, which the handler does not read.
ModelSteps == <<"model">>

\* buildDocumentsListResponse: one evidence item per document, and the upload
\* step only when there is no document.
buildDocumentsListResponse(kind, documents) ==
  Answer(kind, "high", AnswerData(FALSE, documents, <<>>, <<>>),
         IF documents = 0 THEN <<UploadStep>> ELSE <<>>)

DocumentsListBody(documents) == buildDocumentsListResponse("documents_list", documents)
MemoryBody == Answer("memory", "medium", AnswerData(FALSE, 1, <<>>, <<>>), <<>>)
NoIndexBody(documents) == buildDocumentsListResponse("no_index", documents)
RetrievalTimeoutBody(documents) == buildDocumentsListResponse("retrieval_timeout", documents)
StageOneBody(retrieved) ==
  Answer("stage_one", IF retrieved > 0 THEN "medium" ELSE "low",
         AnswerData(TRUE, retrieved, <<>>, <<>>), <<>>)
ModelBody(data) == Answer("model", "model", data, ModelSteps)
ValidationFailureBody(hasFiles) ==
  Answer("validation_failure", "low", AnswerData(hasFiles, 0, <<>>, <<>>), <<RetryStep>>)
RequestFailureBody(timeout) ==
  Answer(IF timeout THEN "request_timed_out" ELSE "request_failed", "low", NoData,
         <<RetryStep>>)

\* A string or undefined.
Undefined == [defined |-> FALSE, text |-> <<>>]
Str(text) == [defined |-> TRUE, text |-> text]
\* JavaScript truthiness of a string or undefined.
Truthy(v) == v.defined /\ v.text # <<>>
\* a ?? b.
Coalesce(a, b) == IF a.defined THEN a ELSE b

\* The request bodies tried.
ChatTexts ==
  { <<"hi">>, <<"list files">>, <<"custody">>, <<"what does", "it", "say">>, <<"when">>,
    <<"deadline">>, <<"list files", "when">> }
ChatRequests ==
  { [malformed |-> TRUE, message |-> Undefined, originalMessage |-> Undefined,
     threadId |-> "none"] }
  \cup { [malformed |-> FALSE, message |-> m, originalMessage |-> o, threadId |-> t] :
           m \in {Undefined, Str(<<>>)} \cup { Str(x) : x \in ChatTexts },
           o \in {Undefined, Str(<<>>), Str(<<"list files">>)},
           t \in {"none", "valid", "invalid"} }

\* What the case holds: the number of its documents, chunks or none, and
\* which memory rows; chunks and memory rows belong to a document.
ChatStores ==
  { [documents |-> 0, chunks |-> FALSE, memory |-> "none"] }
  \cup { [documents |-> 1, chunks |-> c, memory |-> m] :
           c \in BOOLEAN, m \in {"none", "facts", "timeline", "obligations"} }

InitLoc ==
  [caseRecord |-> FALSE, threadRecord |-> FALSE, storedUserMessage |-> Undefined,
   hasIndexedFiles |-> FALSE, retrieved |-> 0, out |-> NoBody, error |-> NoError,
   first |-> NotParsed, retry |-> NotParsed, parsed |-> NotParsed, caught |-> FALSE,
   searched |-> FALSE, failedAt |-> "none", timedOut |-> "none"]

Pending == [state |-> "pending", status |-> 0, body |-> NoBody]

InitChat ==
  /\ ChunkIdle
  /\ IngestIdle
  /\ BatchIdle
  /\ MemIdle
  /\ RefIdle
  /\ OpenaiIdle
  /\ chatReq \in ChatRequests
  /\ chatStore \in ChatStores
  /\ chatPc = "start"
  /\ chatLoc = InitLoc
  /\ chatMessage = <<>>
  /\ chatCalls = <<>>
  /\ chatResp = Pending
  /\ chatFaults = 0

chatOnly == UNCHANGED <<chunkVars, ingestVars, batchVars, memVars, refVars, openaiVars>>

\* NextResponse.json(body, { status }).
Respond(status, body) ==
  /\ chatResp' = [state |-> "returned", status |-> status, body |-> body]
  /\ chatPc' = "done"

\* An exception thrown inside the try block.
ChatThrow(loc, message) ==
  /\ chatLoc' = [loc EXCEPT !.error = message, !.caught = TRUE, !.failedAt = chatPc]
  /\ chatPc' = "catch"

\* req.json() and the test of the message.
ChatStart ==
  /\ chatPc = "start"
  /\ IF chatReq.malformed
       THEN ChatThrow(chatLoc, BodyMessage) /\ UNCHANGED chatResp
       ELSE IF ~Truthy(chatReq.message)
         THEN Respond(400, ErrorBody("Missing message.")) /\ UNCHANGED chatLoc
         ELSE chatPc' = "thread" /\ UNCHANGED <<chatLoc, chatResp>>
  /\ UNCHANGED <<chatReq, chatStore, chatMessage, chatCalls, chatFaults>>
  /\ chatOnly

\* getOrCreateDefaultThread; its thread is the one used when the request
\* names none.
ChatThread ==
  /\ chatPc = "thread"
  /\ chatLoc' = [chatLoc EXCEPT !.caseRecord = TRUE,
                                !.threadRecord = (chatReq.threadId = "none")]
  /\ chatPc' = IF chatReq.threadId = "none" THEN "saveUser" ELSE "findThread"
  /\ UNCHANGED <<chatReq, chatStore, chatMessage, chatCalls, chatResp, chatFaults>>
  /\ chatOnly

\* prisma.chatThread.findFirst for the thread the request names.
ChatFindThread ==
  /\ chatPc = "findThread"
  /\ IF chatReq.threadId = "valid"
       THEN /\ chatLoc' = [chatLoc EXCEPT !.threadRecord = TRUE]
            /\ chatPc' = "saveUser"
            /\ UNCHANGED chatResp
       ELSE Respond(404, ErrorBody("Invalid thread.")) /\ UNCHANGED chatLoc
  /\ UNCHANGED <<chatReq, chatStore, chatMessage, chatCalls, chatFaults>>
  /\ chatOnly

\* storedUserMessage, set before the user message is created.
StoredUserMessage == Coalesce(chatReq.originalMessage, chatReq.message)

UserRow(text) == [role |-> "user", text |-> text, body |-> NoBody]
AssistantRow(body) == [role |-> "assistant", text |-> <<>>, body |-> body]

\* The order of the fast-path tests on the stored text.
FastPath_MemoryFirst(text) ==
  IF isMemoryQuery(text) THEN "memory"
  ELSE IF isDocumentListQuery(text) THEN "docList"
  ELSE "index"
FastPath(text) ==
  IF isDocumentListQuery(text) THEN "docList"
  ELSE IF isMemoryQuery(text) THEN "memory"
  ELSE "index"

\* The user message is created; the fast paths are tested on the stored text.
ChatSaveUser ==
  /\ chatPc = "saveUser"
  /\ chatLoc' = [chatLoc EXCEPT !.storedUserMessage = StoredUserMessage]
  /\ chatMessage' = Append(chatMessage, UserRow(StoredUserMessage.text))
  /\ chatPc' = FastPath(StoredUserMessage.text)
  /\ UNCHANGED <<chatReq, chatStore, chatCalls, chatResp, chatFaults>>
  /\ chatOnly

\* The document-list fast path up to its answer.
ChatDocList ==
  /\ chatPc = "docList"
  /\ chatLoc' = [chatLoc EXCEPT !.out = DocumentsListBody(chatStore.documents)]
  /\ chatPc' = "persist"
  /\ UNCHANGED <<chatReq, chatStore, chatMessage, chatCalls, chatResp, chatFaults>>
  /\ chatOnly

\* The rows the memory fast path finds: facts always, obligations and
\* timeline events only when the text asks for them.
MemoryFound ==
  \/ chatStore.memory = "facts"
  \/ chatStore.memory = "obligations" /\ wantsObligations(chatLoc.storedUserMessage.text)
  \/ chatStore.memory = "timeline" /\ wantsTimeline(chatLoc.storedUserMessage.text)

ChatMemory ==
  /\ chatPc = "memory"
  /\ IF MemoryFound
       THEN chatLoc' = [chatLoc EXCEPT !.out = MemoryBody] /\ chatPc' = "persist"
       ELSE chatPc' = "index" /\ UNCHANGED chatLoc
  /\ UNCHANGED <<chatReq, chatStore, chatMessage, chatCalls, chatResp, chatFaults>>
  /\ chatOnly

\* The reads of documents, jobs and the chunk count.
ChatIndex ==
  /\ chatPc = "index"
  /\ IF chatStore.chunks
       THEN chatLoc' = [chatLoc EXCEPT !.hasIndexedFiles = TRUE] /\ chatPc' = "search"
       ELSE chatLoc' = [chatLoc EXCEPT !.out = NoIndexBody(chatStore.documents)]
            /\ chatPc' = "persist"
  /\ UNCHANGED <<chatReq, chatStore, chatMessage, chatCalls, chatResp, chatFaults>>
  /\ chatOnly

\* With no retrieved source the stage-one answer is returned at once.
AfterSearch_Synthesis(n) == "synthesis"
AfterSearch(n) == IF n = 0 THEN "persist" ELSE "synthesis"

\* searchDocumentChunks and the stage-one answer; n passages survive the filters.
ChatSearch(n) ==
  /\ chatPc = "search"
  /\ chatLoc' = [chatLoc EXCEPT !.retrieved = n, !.out = StageOneBody(n), !.searched = TRUE]
  /\ chatPc' = AfterSearch(n)
  /\ UNCHANGED <<chatReq, chatStore, chatMessage, chatCalls, chatResp, chatFaults>>
  /\ chatOnly

\* What is answered for the output parsed last.
Outcome(parsed, hasFiles) ==
  IF AnswerAccepted(parsed) THEN ModelBody(parsed.data) ELSE ValidationFailureBody(hasFiles)

\* The initial generation call, its parse and the retry decision.
ChatSynthesis(output) ==
  /\ chatPc = "synthesis"
  /\ chatCalls' = Append(chatCalls, "synthesis")
  /\ LET parsed == parseChatResponse(output)
     IN IF RetryWanted(parsed, chatLoc.hasIndexedFiles, StoredUserMessage.text)
          THEN /\ chatLoc' = [chatLoc EXCEPT !.first = parsed, !.parsed = parsed]
               /\ chatPc' = "retry"
          ELSE /\ chatLoc' = [chatLoc EXCEPT !.first = parsed, !.parsed = parsed,
                                !.out = Outcome(parsed, chatLoc.hasIndexedFiles)]
               /\ chatPc' = "persist"
  /\ UNCHANGED <<chatReq, chatStore, chatMessage, chatResp, chatFaults>>
  /\ chatOnly

\* The retry call and its parse.
ChatRetry(output) ==
  /\ chatPc = "retry"
  /\ chatCalls' = Append(chatCalls, "synthesis_retry")
  /\ LET parsed == parseChatResponse(output)
     IN chatLoc' = [chatLoc EXCEPT !.retry = parsed, !.parsed = parsed,
                      !.out = Outcome(parsed, chatLoc.hasIndexedFiles)]
  /\ chatPc' = "persist"
  /\ UNCHANGED <<chatReq, chatStore, chatMessage, chatResp, chatFaults>>
  /\ chatOnly

\* The assistant message is created and the answer returned.
ChatPersist ==
  /\ chatPc = "persist"
  /\ chatMessage' = Append(chatMessage, AssistantRow(chatLoc.out))
  /\ Respond(200, chatLoc.out)
  /\ UNCHANGED <<chatReq, chatStore, chatLoc, chatCalls, chatFaults>>
  /\ chatOnly

\* The catch block up to its write.
ChatCatch ==
  /\ chatPc = "catch"
  /\ LET isTimeout == IsTimeout(chatLoc.error)
         known == chatLoc.caseRecord /\ chatLoc.threadRecord
     IN IF isTimeout /\ IsChunkSearch(chatLoc.error) /\ known
          THEN /\ chatLoc' = [chatLoc EXCEPT !.out = RetrievalTimeoutBody(chatStore.documents)]
               /\ chatPc' = "catchPersist"
               /\ UNCHANGED chatResp
          ELSE IF known /\ Truthy(chatLoc.storedUserMessage)
            THEN /\ chatLoc' = [chatLoc EXCEPT !.out = RequestFailureBody(isTimeout)]
                 /\ chatPc' = "catchPersist"
                 /\ UNCHANGED chatResp
            ELSE /\ chatLoc' = [chatLoc EXCEPT !.out = RequestFailureBody(isTimeout)]
                 /\ Respond(200, RequestFailureBody(isTimeout))
  /\ UNCHANGED <<chatReq, chatStore, chatMessage, chatCalls, chatFaults>>
  /\ chatOnly

\* The catch block's write of the assistant message, and its return.
ChatCatchPersist ==
  /\ chatPc = "catchPersist"
  /\ chatMessage' = Append(chatMessage, AssistantRow(chatLoc.out))
  /\ Respond(200, chatLoc.out)
  /\ UNCHANGED <<chatReq, chatStore, chatLoc, chatCalls, chatFaults>>
  /\ chatOnly

\* The steps that await the database, and those that await a generation call.
DbSteps == {"thread", "findThread", "saveUser", "docList", "memory", "index",
            "search", "persist", "catchPersist"}
GenerationLabel == [synthesis |-> "synthesis", retry |-> "synthesis_retry"]

ChatFaultMessages ==
  IF chatPc \in DbSteps THEN {DbMessage, PoolMessage}
  ELSE IF chatPc \in DOMAIN GenerationLabel
    THEN {WithTimeoutMessage(GenerationLabel[chatPc]), ProviderMessage}
  ELSE {}

\* An awaited operation of the current step throws.
ChatFault(message) ==
  /\ chatFaults < MaxChatFaults
  /\ chatFaults' = chatFaults + 1
  /\ chatCalls' = IF chatPc \in DOMAIN GenerationLabel
                    THEN Append(chatCalls, GenerationLabel[chatPc])
                    ELSE chatCalls
  /\ CASE chatPc = "catchPersist" ->
            \* nothing encloses the catch block: the request rejects
            /\ chatResp' = [state |-> "threw", status |-> 500, body |-> NoBody]
            /\ chatPc' = "done"
            /\ UNCHANGED chatLoc
       [] chatPc = "synthesis" /\ IsTimeout(message) ->
            \* the inner catch answers with the stage-one response
            /\ chatPc' = "persist"
            /\ chatLoc' = [chatLoc EXCEPT !.timedOut = "synthesis"]
            /\ UNCHANGED chatResp
       [] chatPc = "retry" /\ IsTimeout(message) ->
            /\ ChatThrow([chatLoc EXCEPT !.timedOut = "synthesis_retry"], message)
            /\ UNCHANGED chatResp
       [] chatPc = "saveUser" ->
            /\ ChatThrow([chatLoc EXCEPT !.storedUserMessage = StoredUserMessage], message)
            /\ UNCHANGED chatResp
       [] OTHER ->
            /\ ChatThrow(chatLoc, message)
            /\ UNCHANGED chatResp
  /\ UNCHANGED <<chatReq, chatStore, chatMessage>>
  /\ chatOnly

NextChat ==
  \/ ChatStart
  \/ ChatThread
  \/ ChatFindThread
  \/ ChatSaveUser
  \/ ChatDocList
  \/ ChatMemory
  \/ ChatIndex
  \/ \E n \in 0..MaxRetrieved : ChatSearch(n)
  \/ \E output \in ModelOutputs : ChatSynthesis(output)
  \/ \E output \in ModelOutputs : ChatRetry(output)
  \/ ChatPersist
  \/ ChatCatch
  \/ ChatCatchPersist
  \/ \E message \in ChatFaultMessages : ChatFault(message)

SpecChat == InitChat /\ [][NextChat]_vars

(***************************************************************************)
(* SpecChat: properties.                                                   *)
(***************************************************************************)

\* The generation calls made with a label.
CallsLabelled(label) == Cardinality({ k \in 1..Len(chatCalls) : chatCalls[k] = label })
RetryCalls == CallsLabelled("synthesis_retry")

\* The response has been returned with this status and body.
Returned(status, body) ==
  chatResp = [state |-> "returned", status |-> status, body |-> body]

\* The assistant message created last holds this body.
PersistedLast(body) ==
  /\ chatMessage # <<>>
  /\ chatMessage[Len(chatMessage)] = AssistantRow(body)

\* C6: when the first synthesis output parses against the schema and has no
\* evidence items, exactly one retry generation call is issued: none is
\* skipped (once the initial call has returned, the request is either about
\* to make the retry call or has made it), and a second one is never made,
\* whatever the retry returns or throws.
C6_RetryBound ==
  (chatLoc.first.done /\ chatLoc.first.success /\ chatLoc.first.data.evidence = 0)
    => IF chatPc = "retry" THEN RetryCalls = 0 ELSE RetryCalls = 1

\* A finished request whose first answer used retrieval, cited every item and
\* was asked nothing about document content, but had no evidence; the retry
\* was made once and returned no JSON.
C6_Witness ==
  /\ chatPc = "done"
  /\ chatReq.message = Str(<<"hi">>)
  /\ chatReq.originalMessage = Undefined
  /\ chatLoc.first.success
  /\ chatLoc.first.data = AnswerData(TRUE, 0, <<1>>, <<1>>)
  /\ chatCalls = <<"synthesis", "synthesis_retry">>
  /\ chatLoc.retry.done
  /\ ~chatLoc.retry.success

\* C7: a chat request makes at most two generation calls, the initial one and
\* at most one retry after it; and when the retry's output parses against the
\* schema, that output is the answer persisted and returned with status 200,
\* whether or not it passes the citation checks (as long as nothing throws
\* after the retry).
C7_BoundedRetry ==
  /\ Len(chatCalls) <= 2
  /\ CallsLabelled("synthesis") <= 1
  /\ RetryCalls <= 1
  /\ RetryCalls = 1 => chatCalls = <<"synthesis", "synthesis_retry">>
  /\ (chatLoc.retry.done /\ chatLoc.retry.success /\ ~chatLoc.caught)
       => /\ chatLoc.out = ModelBody(chatLoc.retry.data)
          /\ chatPc = "done" => /\ Returned(200, ModelBody(chatLoc.retry.data))
                                /\ PersistedLast(ModelBody(chatLoc.retry.data))

\* A finished request whose retry output is valid but still fails the citation
\* checks, and was returned.
C7_Witness ==
  /\ chatPc = "done"
  /\ chatCalls = <<"synthesis", "synthesis_retry">>
  /\ chatLoc.retry.success
  /\ needsCitationRetry(chatLoc.retry.data)
  /\ validateCitationCoverage(chatLoc.retry.data, chatLoc.hasIndexedFiles,
                              StoredUserMessage.text)
  /\ Returned(200, ModelBody(chatLoc.retry.data))
  /\ PersistedLast(ModelBody(chatLoc.retry.data))

\* C8: when the output of the retry call does not parse against the schema,
\* no exception reaches the caller: the request returns a failure answer of
\* confidence low (the validation-failure answer or, should its write throw,
\* the failure answer of the catch block) and that answer is persisted.
C8_RetryParseFailure ==
  (chatPc = "done" /\ chatLoc.retry.done /\ ~chatLoc.retry.success)
    => /\ chatResp.state = "returned"
       /\ chatResp.body.shape = "answer"
       /\ chatResp.body.confidence = "low"
       /\ ~chatLoc.caught => chatResp.body = ValidationFailureBody(chatLoc.hasIndexedFiles)
       /\ PersistedLast(chatResp.body)

\* C9: a finished request that carried a message and resolved its thread has
\* persisted exactly one user message and then exactly one assistant message.
C9_ConversationPersistence ==
  (chatPc = "done" /\ ~chatReq.malformed /\ Truthy(chatReq.message) /\ chatLoc.threadRecord)
    => /\ Len(chatMessage) = 2
       /\ chatMessage[1].role = "user"
       /\ chatMessage[2].role = "assistant"

\* The request ended on a failure path: a rejected request, a caught
\* exception, a validation failure, or an exception out of the handler.
FailurePath ==
  \/ chatResp.state = "threw"
  \/ chatResp.status # 200
  \/ chatLoc.caught
  \/ chatResp.body.kind = "validation_failure"

\* C10: every failure path of the chat request returns a body of the
\* structured-answer shape, never a bare error object (and never nothing).
C10_StructuredFailure ==
  (chatPc = "done" /\ FailurePath)
    => /\ chatResp.state = "returned"
       /\ chatResp.body.shape = "answer"

\* C25: a request on a case without chunks, in which nothing threw, that got
\* its answer has an answer of the structured shape with used_retrieval false
\* and with next_steps that are not empty and tell the user to upload.
C25_EmptyCase ==
  (/\ chatPc = "done" /\ ~chatStore.chunks /\ ~chatLoc.caught
   /\ chatResp.state = "returned" /\ chatResp.status = 200)
    => /\ chatResp.body.shape = "answer"
       /\ ~chatResp.body.data.used_retrieval
       /\ chatResp.body.next_steps # <<>>
       /\ \E k \in 1..Len(chatResp.body.next_steps) : chatResp.body.next_steps[k] = UploadStep

\* C27: a request whose chunk search threw a timeout error returns the
\* document-list fallback answer when its write succeeds.
C27_RetrievalTimeoutFallback ==
  (/\ chatPc = "done" /\ chatLoc.failedAt = "search" /\ IsTimeout(chatLoc.error)
   /\ chatResp.state = "returned")
    => chatResp.body = RetrievalTimeoutBody(chatStore.documents)

\* C28: once the search of a case with chunks has left no passage, no
\* generation call is made, and the request, if nothing throws, persists and
\* returns the stage-one answer for no passages.
C28_ZeroResults ==
  (chatLoc.searched /\ chatLoc.retrieved = 0)
    => /\ chatStore.chunks
       /\ chatCalls = <<>>
       /\ chatPc \in {"persist", "catch", "catchPersist", "done"}
       /\ (chatPc = "done" /\ ~chatLoc.caught)
            => /\ Returned(200, StageOneBody(0))
               /\ PersistedLast(StageOneBody(0))

\* C28 witness: the search found nothing and the stage-one answer was returned.
C28_Witness ==
  /\ chatPc = "done" /\ chatStore.chunks
  /\ chatLoc.searched /\ chatLoc.retrieved = 0
  /\ chatCalls = <<>>
  /\ Returned(200, StageOneBody(0))
  /\ chatResp.body.confidence = "low"

\* The conditions the claim lists for a retry, on the first parse and the
\* question as stored.
CoverageFails(parsed, question) ==
  \/ ~parsed.success
  \/ ~parsed.data.used_retrieval
  \/ parsed.data.evidence = 0
  \/ \E k \in 1..Len(parsed.data.what_helps) : parsed.data.what_helps[k] = 0
  \/ \E k \in 1..Len(parsed.data.what_hurts) : parsed.data.what_hurts[k] = 0
  \/ isContestedTopic(question) /\ parsed.data.what_hurts = <<>>

\* The retry call has been decided on: it is next, or it has been made.
RetryIssued == chatPc = "retry" \/ RetryCalls > 0

\* C30: once the first synthesis output is parsed, the retry is issued exactly
\* when one of the listed conditions holds; otherwise the first answer is
\* the one persisted and returned (as long as nothing throws).
C30_CoverageDecision ==
  chatLoc.first.done
    => /\ RetryIssued <=> CoverageFails(chatLoc.first, StoredUserMessage.text)
       /\ ~CoverageFails(chatLoc.first, StoredUserMessage.text)
            => /\ chatLoc.out = ModelBody(chatLoc.first.data) \/ chatLoc.caught
               /\ (chatPc = "done" /\ ~chatLoc.caught)
                    => /\ Returned(200, ModelBody(chatLoc.first.data))
                       /\ PersistedLast(ModelBody(chatLoc.first.data))

\* C30 witness: a contested-topic question whose first answer used retrieval,
\* had evidence and cited its one helping item, but listed nothing that
\* hurts: the retry call was made.
C30_Witness ==
  /\ chatPc = "done"
  /\ StoredUserMessage.text = <<"custody">>
  /\ chatLoc.first.success
  /\ chatLoc.first.data = AnswerData(TRUE, 1, <<1>>, <<>>)
  /\ ~needsCitationRetry(chatLoc.first.data)
  /\ chatCalls = <<"synthesis", "synthesis_retry">>

\* A request whose first answer passed every check was answered with it.
C30_WitnessAccepted ==
  /\ chatPc = "done"
  /\ chatLoc.first.success
  /\ ~CoverageFails(chatLoc.first, StoredUserMessage.text)
  /\ chatCalls = <<"synthesis">>
  /\ Returned(200, ModelBody(chatLoc.first.data))

\* C31: a request in which a generation call timed out, and nothing else
\* failed, returns the stage-one answer built from the retrieved passages.
C31_GenerationTimeoutDegrades ==
  (/\ chatPc = "done" /\ chatLoc.timedOut # "none" /\ chatFaults = 1
   /\ chatResp.state = "returned")
    => chatResp.body = StageOneBody(chatLoc.retrieved)

\* The request has answered 200 with nothing thrown on its way.
Answered == chatPc = "done" /\ ~chatLoc.caught /\ chatResp.state = "returned" /\ chatResp.status = 200

\* C32: the document-list pattern is tested first, the memory pattern second,
\* the chunk count third: an answered request got the document list exactly
\* when its stored text matches the document-list pattern, the memory answer
\* exactly when it does not, matches the memory pattern and a memory query
\* returned rows, and the no-index answer exactly when neither applies and
\* the case has no chunk.  A request answered by the document-list or the
\* memory path made no search and no generation call, and a request with a
\* memory-pattern text has searched or called the model only if the memory
\* queries returned no row.
C32_FastPathPrecedence ==
  LET text == chatLoc.storedUserMessage.text
      list == isDocumentListQuery(text)
      memory == isMemoryQuery(text) /\ MemoryFound
      kind == chatResp.body.kind
  IN  /\ Answered =>
           /\ kind = "documents_list" <=> list
           /\ kind = "memory" <=> (~list /\ memory)
           /\ kind = "no_index" <=> (~list /\ ~memory /\ ~chatStore.chunks)
           /\ kind \in {"documents_list", "memory"}
                => chatCalls = <<>> /\ ~chatLoc.searched
      /\ (chatLoc.searched \/ chatCalls # <<>> \/ chatPc \in {"search", "synthesis", "retry"})
           => ~list /\ ~memory

\* C32 witness: a text that matches both patterns, on a case with chunks and
\* timeline rows, was answered with the document list and nothing else ran.
C32_Witness ==
  /\ Answered
  /\ chatLoc.storedUserMessage.text = <<"list files", "when">>
  /\ chatStore.chunks /\ chatStore.memory = "timeline"
  /\ chatResp.body = DocumentsListBody(1)
  /\ chatCalls = <<>> /\ ~chatLoc.searched

\* C39: a synthesized answer that is returned has no document SourceRef whose
\* document_version_id is outside the retrieved sources.
C39_CitationsRestricted ==
  (chatPc = "done" /\ chatResp.state = "returned" /\ chatResp.body.kind = "model")
    => ~chatResp.body.data.other_refs

\* The position in the input of the page with page number pn.
PagePosition(pages, pn) == CHOOSE i \in 1..Len(pages) : pages[i].pageNumber = pn

\* C5: chunk ordering invariant.  The chunkIndex values of buildChunks' output
\* are 0, 1, ..., n-1 in output order, across pages and with blank windows
\* dropped; the chunks' pages follow the input page order; every chunk is
\* non-empty; a second run on the same pages gives the same rows.
C5_ChunkOrdering ==
  chunkRuns >= 1 =>
    /\ \A k \in 1..Len(chunkRun1) : chunkRun1[k].chunkIndex = k - 1
    /\ \A k \in 1..Len(chunkRun1) : chunkRun1[k].text # <<>>
    /\ \A k \in 1..Len(chunkRun1) :
         \E i \in 1..Len(chunkPages) : chunkPages[i].pageNumber = chunkRun1[k].pageNumber
    /\ \A k, m \in 1..Len(chunkRun1) :
         k < m => PagePosition(chunkPages, chunkRun1[k].pageNumber)
                    <= PagePosition(chunkPages, chunkRun1[m].pageNumber)
    /\ chunkRuns = 2 => chunkRun2 = chunkRun1

\* C5 witness: two pages, the first with a dropped blank window and a kept
\* one, the second with two windows, chunked twice.
C5_Witness ==
  /\ Len(chunkPages) = 2
  /\ chunkPages[1].text = Rep(" ", CHUNK_SIZE) \o Rep("b", 10)
  /\ chunkPages[2].text = Rep("a", CHUNK_SIZE + 1)
  /\ chunkRuns = 2
  /\ Len(chunkRun1) = 3
  /\ chunkRun1[1].text = Rep("b", 10)
  /\ Len(chunkRun1[3].text) = CHUNK_OVERLAP + 1


(***************************************************************************)
(* SpecRef: the SourceRef schema and the SourceRefs the chat route builds   *)
(***************************************************************************)

\* SourceRefs parsed or built in one behaviour.
MaxRefs == 1

\* JSON values by what the schemas test: the type, and the length of an array.
JsonNull == [kind |-> "null", len |-> 0]
JsonUndefined == [kind |-> "undefined", len |-> 0]
JsonString == [kind |-> "string", len |-> 1]
JsonNumber == [kind |-> "number", len |-> 1]
JsonArray(n) == [kind |-> "array", len |-> n]

RefTypes ==
  {"document", "transcript_message", "email", "timeline_event", "lawyer_note", "user_note"}

IdFields ==
  {"document_version_id", "transcript_message_ids", "email_id", "timeline_event_id",
   "lawyer_note_id"}

\* z.string(), z.null(), z.array(z.string()).min(1), z.number().nullable()
zString(v) == v.kind = "string"
zNull(v) == v.kind = "null"
zStringArrayMin1(v) == v.kind = "array" /\ v.len >= 1
zNumberNullable(v) == v.kind \in {"number", "null"}

\* LocatorSchema and BaseSourceRef: the fields every variant shares.
BaseSourceRef(ref) ==
  /\ zString(ref.case_id)
  /\ zString(ref.locator.label)
  /\ zNumberNullable(ref.locator.page_start)
  /\ ref.confidence \in {"high", "medium", "low"}

\* The id fields of a variant: one validator per field.
VariantIds(ref, documentId, transcriptId, emailId, timelineId, lawyerId) ==
  /\ IF documentId THEN zString(ref.document_version_id) ELSE zNull(ref.document_version_id)
  /\ IF transcriptId THEN zStringArrayMin1(ref.transcript_message_ids)
                    ELSE zNull(ref.transcript_message_ids)
  /\ IF emailId THEN zString(ref.email_id) ELSE zNull(ref.email_id)
  /\ IF timelineId THEN zString(ref.timeline_event_id) ELSE zNull(ref.timeline_event_id)
  /\ IF lawyerId THEN zString(ref.lawyer_note_id) ELSE zNull(ref.lawyer_note_id)

DocumentSourceRef(ref) == BaseSourceRef(ref) /\ VariantIds(ref, TRUE, FALSE, FALSE, FALSE, FALSE)
TranscriptSourceRef(ref) == BaseSourceRef(ref) /\ VariantIds(ref, FALSE, TRUE, FALSE, FALSE, FALSE)
EmailSourceRef(ref) == BaseSourceRef(ref) /\ VariantIds(ref, FALSE, FALSE, TRUE, FALSE, FALSE)
TimelineSourceRef(ref) == BaseSourceRef(ref) /\ VariantIds(ref, FALSE, FALSE, FALSE, TRUE, FALSE)
LawyerNoteSourceRef(ref) == BaseSourceRef(ref) /\ VariantIds(ref, FALSE, FALSE, FALSE, FALSE, TRUE)
UserNoteSourceRef(ref) == BaseSourceRef(ref) /\ VariantIds(ref, FALSE, FALSE, FALSE, FALSE, FALSE)

\* z.discriminatedUnion("ref_type", ...): the variant is chosen by ref_type,
\* and a ref_type of no variant is rejected.
SourceRefSchema(ref) ==
  CASE ref.ref_type = "document" -> DocumentSourceRef(ref)
    [] ref.ref_type = "transcript_message" -> TranscriptSourceRef(ref)
    [] ref.ref_type = "email" -> EmailSourceRef(ref)
    [] ref.ref_type = "timeline_event" -> TimelineSourceRef(ref)
    [] ref.ref_type = "lawyer_note" -> LawyerNoteSourceRef(ref)
    [] ref.ref_type = "user_note" -> UserNoteSourceRef(ref)
    [] OTHER -> FALSE

SourceRef(refType, documentVersionId, transcript, email, timeline, lawyer, label, page, confidence) ==
  [ref_type |-> refType, case_id |-> JsonString,
   document_version_id |-> documentVersionId,
   transcript_message_ids |-> transcript,
   email_id |-> email, timeline_event_id |-> timeline, lawyer_note_id |-> lawyer,
   locator |-> [label |-> label, page_start |-> page],
   confidence |-> confidence]

\* The SourceRef values given to the schema: every ref_type, one that names
\* no variant, and every id field null or filled.
SourceRefInputs ==
  { SourceRef(t, d, m, e, v, n, JsonString, JsonNull, "high") :
      t \in RefTypes \cup {"note"},
      d \in {JsonNull, JsonString},
      m \in {JsonNull, JsonArray(0), JsonArray(1)},
      e \in {JsonNull, JsonString},
      v \in {JsonNull, JsonString},
      n \in {JsonNull, JsonString} }

buildDocumentSourceRef(documentVersionId, label) ==
  SourceRef("document", documentVersionId, JsonNull, JsonNull, JsonNull, JsonNull,
            label, JsonNull, "high")

\* The evidence source_ref of the stage-one answer for one retrieved source.
StageOneSourceRef(source) ==
  SourceRef("document", source.document_version_id, JsonNull, JsonNull, JsonNull, JsonNull,
            source.label, source.page_start, "medium")

\* The Document row the requests below find: id and title are strings.
RefDocument == [id |-> JsonString, title |-> JsonString]

\* An entry of documentsList in a request body: the body is not validated,
\* so its fields are whatever the caller sent.
ClientDocuments ==
  [document_version_id : {JsonString, JsonNull, JsonUndefined},
   title : {JsonString, JsonUndefined}]

\* documentsList in a request body: absent, empty, or one entry.
DocumentsLists == {<<>>} \cup { <<doc>> : doc \in ClientDocuments }

InitRef ==
  /\ ChunkIdle
  /\ IngestIdle
  /\ ChatIdle
  /\ BatchIdle
  /\ MemIdle
  /\ OpenaiIdle
  /\ refLog = <<>>

refOnly == UNCHANGED <<chunkVars, ingestVars, chatVars, batchVars, memVars, openaiVars>>

Logged(origin, ref) == [origin |-> origin, ref |-> ref, accepted |-> SourceRefSchema(ref)]

\* SourceRefSchema.safeParse(ref)
RefParse(ref) ==
  /\ Len(refLog) < MaxRefs
  /\ refLog' = Append(refLog, Logged("parsed", ref))
  /\ refOnly

\* The document-list fast path: the entries of documentsList when the body
\* has some, the case's Document rows otherwise.
RefDocumentList(documentsList) ==
  /\ Len(refLog) < MaxRefs
  /\ LET docList ==
           IF Len(documentsList) > 0
             THEN documentsList
             ELSE <<[document_version_id |-> RefDocument.id, title |-> RefDocument.title]>>
         origin == IF Len(documentsList) > 0 THEN "list_client" ELSE "list_db"
     IN refLog' = Append(refLog,
                    Logged(origin, buildDocumentSourceRef(docList[1].document_version_id,
                                                          docList[1].title)))
  /\ refOnly

\* The no-index path: the list is built from the case's Document rows.
RefNoIndex ==
  /\ Len(refLog) < MaxRefs
  /\ refLog' = Append(refLog,
                  Logged("no_index", buildDocumentSourceRef(RefDocument.id, RefDocument.title)))
  /\ refOnly

\* The stage-one answer: one source per retrieved chunk whose Document was found.
RefStageOne(pageNumber) ==
  /\ Len(refLog) < MaxRefs
  /\ LET source == [document_version_id |-> RefDocument.id, label |-> RefDocument.title,
                    page_start |-> pageNumber]
     IN refLog' = Append(refLog, Logged("stage_one", StageOneSourceRef(source)))
  /\ refOnly

NextRef ==
  \/ \E ref \in SourceRefInputs : RefParse(ref)
  \/ \E documentsList \in DocumentsLists : RefDocumentList(documentsList)
  \/ RefNoIndex
  \/ \E pageNumber \in {JsonNull, JsonNumber} : RefStageOne(pageNumber)

SpecRef == InitRef /\ [][NextRef]_vars

\* The id field a ref_type names (none for user_note and for unknown types).
MatchingIds(refType) ==
  CASE refType = "document" -> {"document_version_id"}
    [] refType = "transcript_message" -> {"transcript_message_ids"}
    [] refType = "email" -> {"email_id"}
    [] refType = "timeline_event" -> {"timeline_event_id"}
    [] refType = "lawyer_note" -> {"lawyer_note_id"}
    [] OTHER -> {}

\* The id fields of a SourceRef that hold something (null and absent hold nothing).
NonNullIds(ref) == { f \in IdFields : ref[f].kind \notin {"null", "undefined"} }

\* The discriminant rule: the ref_type is a known one, the id fields that are
\* not null are exactly the one it names, and transcript ids are not empty.
Discriminant(ref) ==
  /\ ref.ref_type \in RefTypes
  /\ NonNullIds(ref) = MatchingIds(ref.ref_type)
  /\ ref.ref_type = "transcript_message" => ref.transcript_message_ids.len >= 1

\* C26: the schema accepts a SourceRef exactly when the discriminant rule
\* holds for it, and the discriminant rule holds for every SourceRef built by
\* the document-list, no-index and stage-one answers.
C26_DiscriminantConsistency ==
  \A k \in 1..Len(refLog) :
    /\ refLog[k].origin = "parsed" => (refLog[k].accepted <=> Discriminant(refLog[k].ref))
    /\ refLog[k].origin # "parsed" => Discriminant(refLog[k].ref)


(***************************************************************************)
(* SpecOpenai: createResponses (src/lib/openai.ts), one invocation.  A     *)
(* string is the sequence of its characters; request parameters are a      *)
(* function from the keys present to the JSON text of their values.        *)
(***************************************************************************)

K_model == <<"m","o","d","e","l">>
K_input == <<"i","n","p","u","t">>
K_tools == <<"t","o","o","l","s">>
K_store == <<"s","t","o","r","e">>
K_temperature == <<"t","e","m","p","e","r","a","t","u","r","e">>
K_top_p == <<"t","o","p","_","p">>
K_presence_penalty == <<"p","r","e","s","e","n","c","e","_","p","e","n","a","l","t","y">>
K_frequency_penalty == <<"f","r","e","q","u","e","n","c","y","_","p","e","n","a","l","t","y">>

UNSUPPORTED_FOR_REASONING ==
  {K_temperature, K_top_p, K_presence_penalty, K_frequency_penalty}

\* stripParams: a copy of params without the keys listed.
stripParams_Nothing(params, keys) == params
stripParams(params, keys) == [k \in (DOMAIN params) \ keys |-> params[k]]

\* s has the characters of sub at position i (1-based), letter case ignored.
HasAt(s, sub, i) ==
  /\ i + Len(sub) - 1 <= Len(s)
  /\ ToLowerCase(SubSeq(s, i, i + Len(sub) - 1)) = ToLowerCase(sub)

\* shouldStripForModel: /gpt-5|reasoning/i.test(model)
shouldStripForModel(model) ==
  \E i \in 1..Len(model) : HasAt(model, <<"g","p","t","-","5">>, i) \/ HasAt(model, <<"r","e","a","s","o","n","i","n","g">>, i)

\* The characters of [a-zA-Z0-9_].
NameChars ==
  AlphaNum \cup { UpperCase[i] : i \in 1..26 } \cup {"_"}

UnsupportedPrefix == <<"U","n","s","u","p","p","o","r","t","e","d"," ","p","a","r","a","m","e","t","e","r",":"," ">>

\* The null that extractUnsupportedParam returns when the message does not match.
NoParam == <<>>

\* extractUnsupportedParam: what /Unsupported parameter: ([a-zA-Z0-9_]+)/i captures
\* at its leftmost match, or null.
extractUnsupportedParam(message) ==
  LET L      == Len(UnsupportedPrefix)
      starts == { i \in 1..Len(message) :
                    /\ HasAt(message, UnsupportedPrefix, i)
                    /\ i + L <= Len(message)
                    /\ message[i + L] \in NameChars }
  IN  IF starts = {} THEN NoParam
      ELSE LET i    == CHOOSE a \in starts : \A b \in starts : a <= b
               from == i + L
               to   == CHOOSE e \in from..Len(message) :
                         /\ \A k \in from..e : message[k] \in NameChars
                         /\ e = Len(message) \/ message[e + 1] \notin NameChars
           IN  SubSeq(message, from, to)

\* buildResponsesParams: the sampling parameters go when the model's name asks for it.
buildResponsesParams(base) ==
  LET model == IF K_model \in DOMAIN base THEN base[K_model] ELSE <<>>
  IN  IF model = <<>> THEN base
      ELSE IF shouldStripForModel(model) THEN stripParams(base, UNSUPPORTED_FOR_REASONING)
      ELSE base

\* ---- inputs
OaModels == {<<>>, <<"g","p","t","-","4","o">>, <<"G","P","T","-","5">>, <<"o","3","-","r","e","a","s","o","n","i","n","g">>}
OaOptional == {K_tools, K_store, K_temperature, K_top_p}

\* The caller's parameters: input always, a model or none, any of the optional keys.
OaBases ==
  { [k \in ({K_input} \cup opt \cup (IF hasModel THEN {K_model} ELSE {})) |->
       IF k = K_model THEN m ELSE <<"1">>] :
    opt \in SUBSET OaOptional, m \in OaModels, hasModel \in BOOLEAN }

Msg_Tools == <<"U","n","s","u","p","p","o","r","t","e","d"," ","p","a","r","a","m","e","t","e","r",":"," ","t","o","o","l","s">>
Msg_Toolset == <<"U","n","s","u","p","p","o","r","t","e","d"," ","p","a","r","a","m","e","t","e","r",":"," ","t","o","o","l","s","e","t">>
Msg_Temperature == <<"U","n","s","u","p","p","o","r","t","e","d"," ","p","a","r","a","m","e","t","e","r",":"," ","t","e","m","p","e","r","a","t","u","r","e">>
Msg_StoreLower == <<"4","0","0"," ","u","n","s","u","p","p","o","r","t","e","d"," ","p","a","r","a","m","e","t","e","r",":"," ","s","t","o","r","e"," ","i","s"," ","n","o","t"," ","s","u","p","p","o","r","t","e","d"," ","w","i","t","h"," ","t","h","i","s"," ","m","o","d","e","l",".">>
Msg_Quoted == <<"U","n","s","u","p","p","o","r","t","e","d"," ","p","a","r","a","m","e","t","e","r",":"," ","'","t","o","o","l","s","'">>
Msg_RateLimit == <<"R","a","t","e"," ","l","i","m","i","t"," ","r","e","a","c","h","e","d">>
Msg_NoKey == <<"O","P","E","N","A","I","_","A","P","I","_","K","E","Y"," ","i","s"," ","n","o","t"," ","s","e","t">>

\* An error a provider call rejects with.
OaError(status, message) == [status |-> status, message |-> message]
NoOaError == OaError(0, <<>>)
OaFirstErrors ==
  { OaError(st, m) :
      st \in {0, 400, 429},
      m \in {Msg_Tools, Msg_Toolset, Msg_Temperature, Msg_StoreLower, Msg_Quoted,
             Msg_RateLimit} }
OaSecondErrors == { OaError(400, Msg_Tools), OaError(429, Msg_RateLimit) }

OaReturned == [state |-> "returned", error |-> NoOaError]
OaThrew(error) == [state |-> "threw", error |-> error]
OaPending == [state |-> "pending", error |-> NoOaError]

InitOpenai ==
  /\ ChunkIdle
  /\ IngestIdle
  /\ ChatIdle
  /\ BatchIdle
  /\ MemIdle
  /\ RefIdle
  /\ oaEnv \in BOOLEAN
  /\ oaBase \in OaBases
  /\ oaPc = "getOpenAI"
  /\ oaSanitized = <<>>
  /\ oaCalls = <<>>
  /\ oaError = NoOaError
  /\ oaOutcome = OaPending

openaiOnly == UNCHANGED <<chunkVars, ingestVars, chatVars, batchVars, memVars, refVars>>

\* getOpenAI throws without an API key; otherwise the parameters are sanitized.
OaGetOpenAI ==
  /\ oaPc = "getOpenAI"
  /\ IF oaEnv
       THEN /\ oaSanitized' = buildResponsesParams(oaBase)
            /\ oaPc' = "first"
            /\ UNCHANGED oaOutcome
       ELSE /\ oaOutcome' = OaThrew(OaError(0, Msg_NoKey))
            /\ oaPc' = "end"
            /\ UNCHANGED oaSanitized
  /\ UNCHANGED <<oaEnv, oaBase, oaCalls, oaError>>
  /\ openaiOnly

\* client.responses.create(sanitized, options) resolves.
OaFirstResolves ==
  /\ oaPc = "first"
  /\ oaCalls' = Append(oaCalls, oaSanitized)
  /\ oaOutcome' = OaReturned
  /\ oaPc' = "end"
  /\ UNCHANGED <<oaEnv, oaBase, oaSanitized, oaError>>
  /\ openaiOnly

\* client.responses.create(sanitized, options) rejects: the catch block reads
\* the error and either prepares the retry or rethrows.
OaFirstRejects(error) ==
  /\ oaPc = "first"
  /\ oaCalls' = Append(oaCalls, oaSanitized)
  /\ oaError' = error
  /\ LET unsupported == extractUnsupportedParam(error.message)
     IN  IF error.status = 400 /\ unsupported # NoParam
           THEN /\ oaPc' = "retry"
                /\ UNCHANGED oaOutcome
           ELSE /\ oaOutcome' = OaThrew(error)
                /\ oaPc' = "end"
  /\ UNCHANGED <<oaEnv, oaBase, oaSanitized>>
  /\ openaiOnly

\* The parameters of the second call.
retryParams ==
  stripParams(oaSanitized,
              {extractUnsupportedParam(oaError.message)} \cup UNSUPPORTED_FOR_REASONING)

\* client.responses.create(retryParams, options) resolves.
OaRetryResolves ==
  /\ oaPc = "retry"
  /\ oaCalls' = Append(oaCalls, retryParams)
  /\ oaOutcome' = OaReturned
  /\ oaPc' = "end"
  /\ UNCHANGED <<oaEnv, oaBase, oaSanitized, oaError>>
  /\ openaiOnly

\* client.responses.create(retryParams, options) rejects: nothing catches it.
OaRetryRejects(error) ==
  /\ oaPc = "retry"
  /\ oaCalls' = Append(oaCalls, retryParams)
  /\ oaOutcome' = OaThrew(error)
  /\ oaPc' = "end"
  /\ UNCHANGED <<oaEnv, oaBase, oaSanitized, oaError>>
  /\ openaiOnly

NextOpenai ==
  \/ OaGetOpenAI
  \/ OaFirstResolves
  \/ \E error \in OaFirstErrors : OaFirstRejects(error)
  \/ OaRetryResolves
  \/ \E error \in OaSecondErrors : OaRetryRejects(error)

SpecOpenai == InitOpenai /\ [][NextOpenai]_vars

\* ---- properties

\* The message says "Unsupported parameter: <name>" for this name (letter case of
\* the fixed words ignored, the name ending where the identifier ends).
NamesParameter(message, name) ==
  \E i \in 1..Len(message) :
    LET from == i + Len(UnsupportedPrefix)
        to   == from + Len(name) - 1
    IN  /\ HasAt(message, UnsupportedPrefix, i)
        /\ to <= Len(message)
        /\ SubSeq(message, from, to) = name
        /\ to = Len(message) \/ message[to + 1] \notin NameChars

\* The message says "Unsupported parameter: " and then an identifier.
NamesSomeParameter(message) ==
  \E i \in 1..Len(message) :
    /\ HasAt(message, UnsupportedPrefix, i)
    /\ i + Len(UnsupportedPrefix) <= Len(message)
    /\ message[i + Len(UnsupportedPrefix)] \in NameChars

\* C40 Unsupported-parameter retry: an invocation makes at most two provider
\* calls; a second call was made only after the first failed with status 400
\* and a message naming an unsupported parameter, and its parameters have
\* neither the named key nor temperature, top_p, presence_penalty,
\* frequency_penalty; an invocation that ended after a failure of any other
\* kind threw that error with one call made, and one whose second call failed
\* threw an error with two calls made.
C40_UnsupportedParameterRetry ==
  /\ Len(oaCalls) <= 2
  /\ Len(oaCalls) = 2 =>
       /\ oaError.status = 400
       /\ NamesSomeParameter(oaError.message)
       /\ (DOMAIN oaCalls[2]) \cap UNSUPPORTED_FOR_REASONING = {}
       /\ \A k \in DOMAIN oaBase : NamesParameter(oaError.message, k) => k \notin DOMAIN oaCalls[2]
  /\ (oaPc = "end" /\ oaError # NoOaError
        /\ ~(oaError.status = 400 /\ NamesSomeParameter(oaError.message))) =>
       /\ oaOutcome = OaThrew(oaError)
       /\ Len(oaCalls) = 1
  /\ (oaPc = "end" /\ Len(oaCalls) = 2) =>
       oaOutcome \in {OaReturned} \cup { OaThrew(e) : e \in OaSecondErrors }
  /\ (oaPc = "end" /\ oaOutcome.state = "returned") =>
       oaCalls # <<>>

\* A retry that dropped the named key and the sampling keys and was answered.
C40_Witness ==
  /\ oaPc = "end"
  /\ oaOutcome = OaReturned
  /\ oaBase = [k \in {K_model, K_input, K_tools, K_store, K_temperature, K_top_p} |->
                 IF k = K_model THEN <<"g","p","t","-","4","o">> ELSE <<"1">>]
  /\ oaError = OaError(400, Msg_Tools)
  /\ Len(oaCalls) = 2
  /\ DOMAIN oaCalls[1] = DOMAIN oaBase
  /\ DOMAIN oaCalls[2] = {K_model, K_input, K_store}

\* A second call that failed with an unsupported-parameter error of its own:
\* the error reaches the caller and no third call is made.
C40_WitnessSecondFails ==
  /\ oaPc = "end"
  /\ Len(oaCalls) = 2
  /\ oaOutcome = OaThrew(OaError(400, Msg_Tools))

=============================================================================
